---- MODULE Spec2Model ----
(***************************************************************************)
(* Resumable ingestion pipeline: the persisted run state (StateService),   *)
(* the recovery controller (ResumeService) and the vector store writes     *)
(* they drive (VectorService / VectorStorageService / QdrantService).      *)
(*                                                                         *)
(* One operating-system process at a time runs one ResumeService           *)
(* operation; `pc` is its position.  The state file and the vector store   *)
(* survive a crash of the process, the in-memory PipelineState does not.   *)
(***************************************************************************)
EXTENDS Integers, Sequences, FiniteSets, TLC

(* ----------------------------- bounds ---------------------------------- *)
MaxUrls == 2        \* longest work list explored
MaxRuns == 3        \* operations (restart / resume / recover) launched in one behaviour
MaxChunks == 4      \* largest total_chunks a directly driven StateService counts up to
MaxEngineRuns == 2  \* executions of a retry engine in one behaviour
MaxCalls == 5       \* permits one RateLimiter grants in one behaviour
MaxPauses == 1      \* pauses of the RateLimiter's caller between calls in one behaviour
MaxThreadCalls == 1 \* calls of the RateLimiter one worker thread makes in one behaviour
MaxRequests == 7    \* requests one CrawlRateLimiter records in one behaviour

(* ------------------------- program constants --------------------------- *)
MaxRetries == 3     \* resume_pipeline(max_retries=3)

(* --------------------------- value spaces ------------------------------ *)
Units == 1..MaxUrls
None == -1          \* Python None for an optional datetime
NoUrl == 0          \* Python None for last_processed_url
WorkLists == { [k \in 1..n |-> k] : n \in 1..MaxUrls }

Range(s) == { s[k] : k \in 1..Len(s) }

\* number of chunks the chunker produces for a unit's page
NChunks(u) == 1 + (u % 2)

\* chunk_id = (abs(hash(source_url)) % 1000000) * 1000 + chunk_index ; hash()
\* of a str is salted per process unless the environment fixes PYTHONHASHSEED,
\* so the id is a function of the process's salt, the unit and the chunk index.
ChunkId(sd, u, k) == << sd, u, k >>

crawl_chunks(sd, u) ==
    { [id |-> ChunkId(sd, u, k), source_url |-> u, chunk_index |-> k] : k \in 0..(NChunks(u) - 1) }

(* --------------------------- PipelineState ----------------------------- *)
NoCheckpoint == [initial_urls |-> << >>, current_url_index |-> 0, last_processed_url |-> NoUrl]

NoState ==
    [session_id |-> 0, status |-> "none", start_time |-> None, end_time |-> None,
     processed_urls |-> << >>, failed_urls |-> << >>, total_chunks |-> 0,
     processed_chunks |-> 0, checkpoint_data |-> NoCheckpoint, error_message |-> ""]

create_initial_state(sid, urls, t) ==
    [session_id |-> sid, status |-> "running", start_time |-> t, end_time |-> None,
     processed_urls |-> << >>, failed_urls |-> << >>, total_chunks |-> 0,
     processed_chunks |-> 0,
     checkpoint_data |-> [initial_urls |-> urls, current_url_index |-> 0,
                          last_processed_url |-> NoUrl],
     error_message |-> ""]

\* update_state that only sets the attribute and never stamps end_time
update_state_no_stamp(st, s, t) == [st EXCEPT !.status = s]

\* update_state that stamps end_time on every transition into a final status
update_state_restamp(st, s, t) ==
    IF s \in {"completed", "failed"}
    THEN [st EXCEPT !.status = s, !.end_time = t]
    ELSE [st EXCEPT !.status = s]

\* update_state(state, status=s): set the attribute, then stamp end_time when
\* the status is final and end_time is still unset.
update_state(st, s, t) ==
    LET st1 == [st EXCEPT !.status = s]
    IN  IF st1.status \in {"completed", "failed"} /\ st1.end_time = None
        THEN [st1 EXCEPT !.end_time = t]
        ELSE st1

\* add_processed_url that inserts at the head of the list
add_processed_url_front(st, u) ==
    IF u \notin Range(st.processed_urls)
    THEN [st EXCEPT !.processed_urls = << u >> \o @]
    ELSE st

add_processed_url(st, u) ==
    IF u \notin Range(st.processed_urls)
    THEN [st EXCEPT !.processed_urls = Append(@, u)]
    ELSE st

add_failed_url(st, u) ==
    IF u \notin Range(st.failed_urls)
    THEN [st EXCEPT !.failed_urls = Append(@, u)]
    ELSE st

increment_chunk_count(st, n) == [st EXCEPT !.total_chunks = @ + n]

update_checkpoint_data(st, idx, u) ==
    [st EXCEPT !.checkpoint_data.current_url_index = idx,
               !.checkpoint_data.last_processed_url = u]

(* ------------------- serialisation of the state file ------------------- *)
isoformat(t) == << t >>
fromisoformat(s) == s[1]

to_dict(st) ==
    [session_id |-> st.session_id, status |-> st.status,
     start_time |-> isoformat(st.start_time),
     end_time |-> IF st.end_time # None THEN isoformat(st.end_time) ELSE << >>,
     processed_urls |-> st.processed_urls, failed_urls |-> st.failed_urls,
     total_chunks |-> st.total_chunks, processed_chunks |-> st.processed_chunks,
     checkpoint_data |-> st.checkpoint_data, error_message |-> st.error_message]

from_dict(d) ==
    [session_id |-> d.session_id, status |-> d.status,
     start_time |-> fromisoformat(d.start_time),
     end_time |-> IF d.end_time # << >> THEN fromisoformat(d.end_time) ELSE None,
     processed_urls |-> d.processed_urls, failed_urls |-> d.failed_urls,
     total_chunks |-> d.total_chunks, processed_chunks |-> d.processed_chunks,
     checkpoint_data |-> d.checkpoint_data, error_message |-> d.error_message]

\* the state file: absent, opened for writing and not yet (completely)
\* written, or holding one complete JSON document
AbsentFile == [kind |-> "absent", data |-> to_dict(NoState)]
TruncatedFile == [kind |-> "truncated", data |-> to_dict(NoState)]
WrittenFile(st) == [kind |-> "ok", data |-> to_dict(st)]

\* load_state: None (NoState) when the file is missing or json.load raises
load_state(f) == IF f.kind = "ok" THEN from_dict(f.data) ELSE NoState

(* ----------------------------- vector store ---------------------------- *)
\* QdrantService.check_document_exists: any point with this source_url; an
\* error of the scroll call is swallowed and reported as "does not exist".
check_document_exists(points, u, scroll_error) ==
    IF scroll_error THEN FALSE ELSE \E r \in points : r.source_url = u

\* upsert is keyed by point id: a point with a known id is overwritten
upsert_vectors(points, new) ==
    { r \in points : \A p \in new : p.id # r.id } \cup new

\* store_chunks_with_deduplication: keep the chunks whose document is not
\* reported to exist, then upsert them in one call (nothing to upsert is a
\* success as well).  errs = the chunks whose existence check raised.
store_chunks_with_deduplication(points, chunks, errs) ==
    LET unique_chunks ==
            { c \in chunks : ~check_document_exists(points, c.source_url, c \in errs) }
    IN  upsert_vectors(points, unique_chunks)

(* ----------------------------- ErrorService ---------------------------- *)
\* An error is its message; a message is modelled by the keyword groups of
\* categorize_error that occur in its lower-cased text.  The groups are tried
\* in this order and the first that occurs names the category.
KeywordGroups ==
    << "network", "rate_limit", "authentication", "not_found", "server", "client" >>

\* "connection timeout", "rate limit exceeded", "unauthorized", "malformed
\* request", "internal server error", "invalid api key", "boom"
Messages ==
    { {"network"}, {"rate_limit"}, {"authentication"}, {"client"}, {"server"},
      {"authentication", "client"}, {} }

categorize_error(msg) ==
    LET hits == { k \in 1..Len(KeywordGroups) : KeywordGroups[k] \in msg }
    IN  IF hits = {} THEN "unknown"
        ELSE KeywordGroups[CHOOSE k \in hits : \A j \in hits : k <= j]

should_retry_error(msg) == categorize_error(msg) \in {"network", "server", "rate_limit"}

RECURSIVE Pow2(_)
Pow2(n) == IF n = 0 THEN 1 ELSE 2 * Pow2(n - 1)

\* the largest value random.uniform(0, delay * 0.1) can return; delays are in
\* hundredths of a second
MaxJitter(delay) == delay \div 10

\* get_retry_delay: base_delay * 2 ** attempt + jitter, base 60.0 for
\* rate_limit, 2.0 for network, 1.5 for server, 1.0 otherwise
get_retry_delay(msg, attempt, jitter) ==
    LET kind == categorize_error(msg)
        base_delay == CASE kind = "rate_limit" -> 6000
                        [] kind = "network" -> 200
                        [] kind = "server" -> 150
                        [] OTHER -> 100
    IN  base_delay * Pow2(attempt) + jitter

(* ------------------------------ RateLimiter --------------------------- *)
\* Times are in hundredths of a second, rates in requests per hundred seconds
\* (2.0 per second is 200).
Hosts == {"H", "A"}

\* 1.0 / rate, the length of a window
Window(rate) == 10000 \div rate

\* RateLimiter(default_rate, default_burst): every host and the global window
\* start from the defaults.  last, host and blocking describe the latest call:
\* its outcome and its arguments.
RateLimiter(default_rate, default_burst) ==
    [now |-> 0,
     domains |-> [h \in Hosts |-> [rate |-> default_rate, burst |-> default_burst,
                                   timestamps |-> << >>]],
     global |-> [rate |-> default_rate, burst |-> default_burst, timestamps |-> << >>],
     last |-> "none",
     host |-> "none",
     blocking |-> TRUE,
     pauses |-> 0]

set_domain_limits(l, h, requests_per_second, burst) ==
    [l EXCEPT !.domains[h].rate = requests_per_second, !.domains[h].burst = burst]

set_global_limits(l, requests_per_second, burst) ==
    [l EXCEPT !.global.rate = requests_per_second, !.global.burst = burst]

\* while timestamps and timestamps[0] <= cutoff: timestamps.popleft()
RECURSIVE Prune(_, _)
Prune(ts, cutoff) ==
    IF ts # << >> /\ Head(ts) <= cutoff THEN Prune(Tail(ts), cutoff) ELSE ts

\* AfterSleep with the two terms of sleep_time exchanged
AfterSleepExchanged(ts, rate, now) ==
    LET sleep_time == (now - Head(ts)) - Window(rate) + 1
    IN  IF sleep_time > 0 THEN now + sleep_time ELSE now

\* the time at which a caller that found the window full goes on: it sleeps
\* 1/rate - (now - timestamps[0]) + 0.01 when that is positive
AfterSleep(ts, rate, now) ==
    LET sleep_time == Window(rate) - (now - Head(ts)) + 1
    IN  IF sleep_time > 0 THEN now + sleep_time ELSE now

\* _wait_for_capacity: prune, sleep when the burst is reached, append now
wait_for_capacity(w, now) ==
    LET ts == Prune(w.timestamps, now - Window(w.rate))
        now1 == IF Len(ts) >= w.burst THEN AfterSleep(ts, w.rate, now) ELSE now
    IN  [window |-> [w EXCEPT !.timestamps = Append(ts, now1)], now |-> now1]

\* wait(url): the per-host window, then the global window
wait(l, h) ==
    LET d == wait_for_capacity(l.domains[h], l.now)
        g == wait_for_capacity(l.global, d.now)
    IN  [l EXCEPT !.domains[h] = d.window, !.global = g.window, !.now = g.now,
                  !.last = "granted", !.host = h, !.blocking = TRUE]

\* acquire that stamps the per-host window as soon as that window has room,
\* before it looks at the global window
acquire_stamps_host_first(l, h, blocking) ==
    LET dom == l.domains[h]
        d1 == Prune(dom.timestamps, l.now - Window(dom.rate))
        dom_full == Len(d1) >= dom.burst
        now1 == IF dom_full THEN AfterSleep(d1, dom.rate, l.now) ELSE l.now
        g1 == Prune(l.global.timestamps, now1 - Window(l.global.rate))
        glob_full == Len(g1) >= l.global.burst
        now2 == IF glob_full THEN AfterSleep(g1, l.global.rate, now1) ELSE now1
        c == [l EXCEPT !.host = h, !.blocking = blocking]
    IN  IF dom_full /\ ~blocking
        THEN [c EXCEPT !.domains[h].timestamps = d1, !.last = "denied"]
        ELSE IF glob_full /\ ~blocking
        THEN [c EXCEPT !.domains[h].timestamps = Append(d1, now1),
                       !.global.timestamps = g1, !.last = "denied"]
        ELSE [c EXCEPT !.domains[h].timestamps = Append(d1, now2),
                       !.global.timestamps = Append(g1, now2),
                       !.now = now2, !.last = "granted"]

\* acquire(url, blocking)
acquire(l, h, blocking) ==
    LET dom == l.domains[h]
        d1 == Prune(dom.timestamps, l.now - Window(dom.rate))
        dom_full == Len(d1) >= dom.burst
        now1 == IF dom_full THEN AfterSleep(d1, dom.rate, l.now) ELSE l.now
        g1 == Prune(l.global.timestamps, now1 - Window(l.global.rate))
        glob_full == Len(g1) >= l.global.burst
        now2 == IF glob_full THEN AfterSleep(g1, l.global.rate, now1) ELSE now1
        c == [l EXCEPT !.host = h, !.blocking = blocking]
    IN  IF dom_full /\ ~blocking
        THEN [c EXCEPT !.domains[h].timestamps = d1, !.last = "denied"]
        ELSE IF glob_full /\ ~blocking
        THEN [c EXCEPT !.domains[h].timestamps = d1, !.global.timestamps = g1,
                       !.last = "denied"]
        ELSE [c EXCEPT !.domains[h].timestamps = Append(d1, now2),
                       !.global.timestamps = Append(g1, now2),
                       !.now = now2, !.last = "granted"]

(* ---------------------------- CrawlRateLimiter ------------------------- *)
\* Delays are in hundredths of a second.
Min(a, b) == IF a <= b THEN a ELSE b

\* the ceiling of the backoff, min(..., 60.0)
MaxBackoffDelay == 6000

\* CrawlRateLimiter(default_delay): no per-host delay, no failure and no
\* request recorded; its RateLimiter runs at 1 / default_delay with burst 1.
\* now is the clock time.time() reads.
CrawlRateLimiter(default_delay) ==
    [default_delay |-> default_delay,
     rate_limiter |-> RateLimiter(IF default_delay > 0 THEN 10000 \div default_delay
                                  ELSE 100, 1),
     domain_delays |-> [h \in Hosts |-> None],
     failed_requests |-> [h \in Hosts |-> 0],
     last_request_time |-> [h \in Hosts |-> None],
     now |-> 0]

set_domain_delay(c, h, delay) ==
    [c EXCEPT !.domain_delays[h] = delay,
              !.rate_limiter = IF delay > 0
                               THEN set_domain_limits(@, h, 10000 \div delay, 1)
                               ELSE @]

\* the delay of the host before any failure: domain_delays.get(domain, default_delay)
baseline_delay(c, h) ==
    IF c.domain_delays[h] # None THEN c.domain_delays[h] ELSE c.default_delay

should_delay_request(c, h) ==
    LET delay == baseline_delay(c, h)
        failure_count == c.failed_requests[h]
    IN  IF failure_count > 0
        THEN Min(delay * Pow2(Min(failure_count, 5)), MaxBackoffDelay)
        ELSE delay

record_request(c, h, success) ==
    [c EXCEPT !.last_request_time[h] = c.now,
              !.failed_requests[h] = IF success THEN 0 ELSE @ + 1]

(* ------------------------------- state --------------------------------- *)
VARIABLES
    W,            \* the work list of the run (discovery order)
    site,         \* per unit: "up" (fetch succeeds) or "down" (every fetch fails)
    file,         \* the state file pipeline_state.json
    store,        \* points held by the vector store collection
    mem,          \* the PipelineState object of the live process (NoState: none)
    pc,           \* position of the live process ("idle": no process)
    op,           \* operation the process runs: restart / resume / recover
    urls,         \* the list the loop iterates (urls or remaining_urls)
    i,            \* 1-based loop position in urls
    retry_count,  \* retry_count of _process_remaining_urls
    nchunks,      \* len(chunks) of the attempt that succeeded
    after_save,   \* where the process continues once save_state returns
    hash_randomized, \* whether str hashes are salted per process (Python's default)
    result,       \* what the operation returned
    runs,         \* operations launched so far (also the wall clock)
    retry,        \* one execution of a retry engine of ErrorService / the unit loop
    slept,        \* every time.sleep of a retry engine: engine, error kind, attempt, delay
    limiter,      \* one RateLimiter object and the clock its caller reads
    permits,      \* the calls the RateLimiter granted, in order
    threads,      \* per worker thread: its position in acquire / wait and its locals
    locks,        \* per lock of the RateLimiter (a host's, the global one): its holder
    crawl,        \* one CrawlRateLimiter object
    proc,         \* the process started by the command line: position in main(), arguments, exit code
    dedup,        \* DuplicateService calls on one batch: the batch and what each call returned
    ckpt,         \* the checkpoint directory, the clock of the service and the latest answer of get_latest_checkpoint
    embed,        \* EmbeddingService calls on one list of chunks: the input and what the call returned
    attempts,     \* how many times the workflow of the current unit was attempted
    chunker       \* TextChunker.chunk_text on one text: arguments, loop variables, chunks produced

vars == << W, site, file, store, mem, pc, op, urls, i, retry_count, nchunks,
           after_save, hash_randomized, result, runs, retry, slept, limiter, permits,
           threads, locks, crawl, proc, dedup, ckpt, embed, attempts, chunker >>

\* state of the components that a ResumeService operation does not touch
harness == << retry, slept, limiter, permits, threads, locks, crawl, proc, dedup, ckpt,
             embed, attempts, chunker >>

\* the same without the attempt counter of the per-unit loop
other_components == << retry, slept, limiter, permits, threads, locks, crawl, proc, dedup,
                      ckpt, embed, chunker >>

locals == << urls, i, retry_count, nchunks, after_save >>

\* no retry engine is executing
NoRetry ==
    [engine |-> "none", max_retries |-> 0, error |-> {}, calls |-> 0, fails |-> 0,
     delay |-> 0, pc |-> "idle", runs |-> 0]

\* the worker threads that share one RateLimiter
Workers == {1, 2}

\* a thread that is not inside a call of the RateLimiter
IdleThread ==
    [pc |-> "idle", host |-> "H", blocking |-> TRUE, now |-> 0, wake |-> 0,
     called_at |-> 0, calls |-> 0]

\* the names of the locks: domains[h]['lock'] for each host and global_lock
LockNames == Hosts \cup {"global"}

\* no lock is held (0: no holder)
NoLocks == [k \in LockNames |-> 0]

\* chunk_text was not called
NoChunking ==
    [pc |-> "off", text |-> [length |-> 0, spaces |-> {}, stops |-> {}], chunk_size |-> 0,
     overlap |-> 0, start |-> 0, chunks |-> << >>, iterations |-> 0]

\* no list of chunks was handed to the embedding service
NoEmbedding ==
    [chunks |-> << >>, called |-> "none", batch_size |-> 0, raised |-> FALSE,
     updated_chunks |-> << >>, all_embeddings |-> << >>]

\* the content of a checkpoint file that does not exist, and the answer None
NoCheckpointFile ==
    [checkpoint_id |-> << >>, timestamp |-> None, processed_urls |-> << >>,
     processed_chunks |-> << >>, current_position |-> [type |-> "none", index |-> 0]]

\* the names a file of the checkpoint directory can have: "<id>.json"
CheckpointIds == { << "a" >>, << "b" >>, << "a", ".json" >> }

CheckpointFiles == { id \o << ".json" >> : id \in CheckpointIds }

\* the arguments of the latest creator call: none yet
NoArguments ==
    [checkpoint_id |-> << >>, processed_urls |-> << >>, processed_chunks |-> << >>,
     index |-> 0]

\* an empty checkpoint directory, as _ensure_checkpoint_dir makes it
NoCheckpoints ==
    [dir |-> [f \in CheckpointFiles |-> NoCheckpointFile], now |-> 0, created |-> 0,
     asked |-> FALSE, listing |-> << >>, latest |-> NoCheckpointFile,
     called |-> "none", args |-> NoArguments, raised |-> FALSE, keep_last_n |-> 0]

\* no batch was handed to the duplicate service
NoDedup ==
    [batch |-> << >>, removed |-> FALSE, unique |-> << >>, detected |-> FALSE,
     duplicates |-> << >>, fingerprinted |-> FALSE, fingerprints |-> << >>]

\* no process of the command line is running
NoProcess ==
    [pc |-> "off", resume |-> FALSE, validate_only |-> FALSE, env |-> "ok",
     validated |-> FALSE, io |-> {}, retries |-> 0, failed_stage |-> "none",
     save_failed |-> FALSE, exit_code |-> None]

Init ==
    /\ W \in WorkLists
    /\ site \in [Range(W) -> {"up", "down"}]
    /\ file = AbsentFile
    /\ store = {}
    /\ mem = NoState
    /\ pc = "idle"
    /\ op = "none"
    /\ urls = << >>
    /\ i = 0
    /\ retry_count = 0
    /\ nchunks = 0
    /\ after_save = "none"
    /\ hash_randomized \in BOOLEAN
    /\ result = "none"
    /\ runs = 0
    /\ retry = NoRetry
    /\ slept = {}
    /\ limiter = RateLimiter(100, 1)
    /\ permits = << >>
    /\ threads = [t \in Workers |-> IdleThread]
    /\ locks = NoLocks
    /\ crawl = CrawlRateLimiter(100)
    /\ proc = NoProcess
    /\ dedup = NoDedup
    /\ ckpt = NoCheckpoints
    /\ embed = NoEmbedding
    /\ attempts = 0
    /\ chunker = NoChunking

\* the salt of the live process: one per process when hashes are randomized
HashSeed == IF hash_randomized THEN runs ELSE 0

\* a new process starts
Launch(name) ==
    /\ pc = "idle"
    /\ runs < MaxRuns
    /\ runs' = runs + 1
    /\ op' = name
    /\ result' = "none"
    /\ UNCHANGED hash_randomized

(* ------------------- restart_pipeline_from_scratch --------------------- *)
\* create_initial_state + the first save_state; the operator starts a new
\* run when there is no state to resume (recommendation "start_new").
RestartPipelineFromScratch ==
    /\ Launch("restart")
    /\ load_state(file) = NoState
    /\ mem' = create_initial_state(runs + 1, W, runs + 1)
    /\ urls' = W
    /\ i' = 1
    /\ retry_count' = 0
    /\ nchunks' = 0
    /\ pc' = "save_open"
    /\ after_save' = "loop"
    /\ UNCHANGED << W, site, file, store >>
    /\ UNCHANGED harness

(* --------------------------- resume_pipeline --------------------------- *)
ResumeLoad ==
    /\ Launch("resume")
    /\ mem' = load_state(file)
    /\ IF load_state(file) = NoState
       THEN pc' = "done" /\ result' = "none"
       ELSE pc' = "resume_loaded"
    /\ UNCHANGED << W, site, file, store, locals >>
    /\ UNCHANGED harness

\* resume_pipeline without its early return on a completed state
ResumeBranchNoCompletedCheck(st) ==
    IF st.checkpoint_data = NoCheckpoint THEN "no_checkpoint" ELSE "resume"

\* which way resume_pipeline goes once a state is loaded
ResumeBranch(st) ==
    IF st.status = "completed" THEN "already_completed"
    ELSE IF st.checkpoint_data = NoCheckpoint THEN "no_checkpoint"
    ELSE "resume"

\* remaining_urls = initial_urls[current_url_index:]
remaining_urls(st) ==
    SubSeq(st.checkpoint_data.initial_urls,
           st.checkpoint_data.current_url_index + 1,
           Len(st.checkpoint_data.initial_urls))

\* validate_resume_state: a state, with checkpoint data, with initial URLs,
\* of which fewer are processed than there are
validate_resume_state(st) ==
    /\ st # NoState
    /\ st.checkpoint_data # NoCheckpoint
    /\ st.checkpoint_data.initial_urls # << >>
    /\ ~(Len(st.processed_urls) >= Len(st.checkpoint_data.initial_urls))

ResumeDecide ==
    /\ pc = "resume_loaded"
    /\ LET br == ResumeBranch(mem)
           running == update_state(mem, "running", runs)
       IN  CASE br = "already_completed" ->
                    /\ pc' = "done"
                    /\ result' = "already_completed"
                    /\ UNCHANGED << mem, locals >>
             [] br = "no_checkpoint" ->
                    /\ mem' = running
                    /\ pc' = "done"
                    /\ result' = "state"
                    /\ UNCHANGED locals
             [] OTHER ->
                    IF remaining_urls(running) # << >>
                    THEN /\ mem' = running
                         /\ urls' = remaining_urls(running)
                         /\ i' = 1
                         /\ pc' = "loop"
                         /\ UNCHANGED << retry_count, nchunks, after_save, result >>
                    ELSE /\ mem' = update_state(running, "completed", runs)
                         /\ pc' = "save_open"
                         /\ after_save' = "return"
                         /\ UNCHANGED << urls, i, retry_count, nchunks, result >>
    /\ UNCHANGED << W, site, file, store, op, hash_randomized, runs >>
    /\ UNCHANGED harness

(* ------------------------ the per-unit loop ---------------------------- *)
\* head of `for i, url in enumerate(...)`: update_checkpoint_data, or leave
\* the loop.  The restart loop records i, the resume loop len(processed_urls).
LoopHead ==
    /\ pc = "loop"
    /\ IF i <= Len(urls)
       THEN /\ mem' = update_checkpoint_data(mem,
                          IF op = "restart" THEN i - 1 ELSE Len(mem.processed_urls),
                          urls[i])
            /\ retry_count' = 0
            /\ pc' = "attempt"
       ELSE /\ pc' = "final"
            /\ UNCHANGED << mem, retry_count >>
    /\ UNCHANGED << W, site, file, store, op, urls, i, nchunks, after_save, hash_randomized,
                    result, runs >>
    /\ attempts' = 0
    /\ UNCHANGED other_components

\* crawl_single_page returns [] (the fetch failed: extract_page_content
\* reports status "failed" and crawl_single_page returns no chunks)
AttemptNoChunks ==
    /\ pc = "attempt"
    /\ site[urls[i]] = "down"
    /\ nchunks' = 0
    /\ pc' = "record"
    /\ UNCHANGED << W, site, file, store, mem, op, urls, i, retry_count, after_save,
                    hash_randomized, result, runs >>
    /\ attempts' = attempts + 1
    /\ UNCHANGED other_components

\* chunks were produced, embedded and store_chunks_with_deduplication returned
\* True: the store acknowledged the upsert (or had nothing new to take)
AttemptStore ==
    /\ pc = "attempt"
    /\ site[urls[i]] = "up"
    /\ \E errs \in {{}, crawl_chunks(HashSeed, urls[i])} :
          store' = store_chunks_with_deduplication(store, crawl_chunks(HashSeed, urls[i]), errs)
    /\ nchunks' = NChunks(urls[i])
    /\ pc' = "record"
    /\ UNCHANGED << W, site, file, mem, op, urls, i, retry_count, after_save, hash_randomized,
                    result, runs >>
    /\ attempts' = attempts + 1
    /\ UNCHANGED other_components

\* the embedding provider or the upsert raised: nothing was stored.  The
\* resume loop retries up to max_retries times, the restart loop does not.
AttemptRaise ==
    /\ pc = "attempt"
    /\ site[urls[i]] = "up"
    /\ IF op = "resume" /\ retry_count + 1 < MaxRetries
       THEN /\ retry_count' = retry_count + 1
            /\ pc' = "attempt"
            /\ UNCHANGED << mem, after_save >>
       ELSE /\ retry_count' = IF op = "resume" THEN retry_count + 1 ELSE retry_count
            /\ mem' = add_failed_url(mem, urls[i])
            /\ pc' = "save_open"
            /\ after_save' = "next"
    /\ UNCHANGED << W, site, file, store, op, urls, i, nchunks, hash_randomized, result, runs >>
    /\ attempts' = attempts + 1
    /\ UNCHANGED other_components

\* add_processed_url (+ increment_chunk_count when there were chunks)
Record ==
    /\ pc = "record"
    /\ mem' = IF nchunks > 0
              THEN increment_chunk_count(add_processed_url(mem, urls[i]), nchunks)
              ELSE add_processed_url(mem, urls[i])
    /\ pc' = "save_open"
    /\ after_save' = "next"
    /\ UNCHANGED << W, site, file, store, op, urls, i, retry_count, nchunks, hash_randomized,
                    result, runs >>
    /\ UNCHANGED harness

\* after the loop: the resume loop completes a state that is still running,
\* the restart loop completes unconditionally; then the final save_state
Finalize ==
    /\ pc = "final"
    /\ mem' = IF op = "restart" \/ mem.status = "running"
              THEN update_state(mem, "completed", runs)
              ELSE mem
    /\ pc' = "save_open"
    /\ after_save' = "return"
    /\ UNCHANGED << W, site, file, store, op, urls, i, retry_count, nchunks, hash_randomized,
                    result, runs >>
    /\ UNCHANGED harness

(* ------------------------------ save_state ----------------------------- *)
\* where the caller continues after save_state
AfterSave ==
    /\ pc' = CASE after_save = "loop" -> "loop"
               [] after_save = "next" -> "loop"
               [] OTHER -> "done"
    /\ i' = IF after_save = "next" THEN i + 1 ELSE i
    /\ result' = IF after_save = "return"
                 THEN (IF op = "recover" THEN "true" ELSE "state")
                 ELSE result

\* open(path, 'w') truncates the file
SaveOpen ==
    /\ pc = "save_open"
    /\ file' = TruncatedFile
    /\ pc' = "save_dump"
    /\ UNCHANGED << W, site, store, mem, op, urls, i, retry_count, nchunks, after_save,
                    hash_randomized, result, runs >>
    /\ UNCHANGED harness

\* json.dump(state.to_dict(), f) and close
SaveDump ==
    /\ pc = "save_dump"
    /\ file' = WrittenFile(mem)
    /\ AfterSave
    /\ UNCHANGED << W, site, store, mem, op, urls, retry_count, nchunks, after_save,
                    hash_randomized, runs >>
    /\ UNCHANGED harness

(* ------------------------- recover_from_failure ------------------------ *)
RecoverLoad ==
    /\ Launch("recover")
    /\ mem' = load_state(file)
    /\ IF load_state(file) = NoState
       THEN pc' = "done" /\ result' = "false"
       ELSE pc' = "recover_loaded"
    /\ UNCHANGED << W, site, file, store, locals >>
    /\ UNCHANGED harness

RecoverUpdate ==
    /\ pc = "recover_loaded"
    /\ \E with_context \in BOOLEAN :
          mem' = update_state(
                    IF with_context THEN [mem EXCEPT !.error_message = "error"] ELSE mem,
                    "failed", runs)
    /\ pc' = "save_open"
    /\ after_save' = "return"
    /\ UNCHANGED << W, site, file, store, op, urls, i, retry_count, nchunks, hash_randomized,
                    result, runs >>
    /\ UNCHANGED harness

(* ------------------------- process end and crash ----------------------- *)
ClearProcess ==
    /\ pc' = "idle"
    /\ op' = "none"
    /\ result' = "none"
    /\ mem' = NoState
    /\ urls' = << >>
    /\ i' = 0
    /\ retry_count' = 0
    /\ nchunks' = 0
    /\ after_save' = "none"

\* the operation returned and the process exits
Return ==
    /\ pc = "done"
    /\ ClearProcess
    /\ UNCHANGED << W, site, file, store, hash_randomized, runs >>
    /\ attempts' = 0
    /\ UNCHANGED other_components

\* the process dies (kill, power loss, operator abort) at any point
Crash ==
    /\ pc \notin {"idle", "done"}
    /\ ClearProcess
    /\ UNCHANGED << W, site, file, store, hash_randomized, runs >>
    /\ attempts' = 0
    /\ UNCHANGED other_components

Next ==
    \/ RestartPipelineFromScratch
    \/ ResumeLoad
    \/ ResumeDecide
    \/ LoopHead
    \/ AttemptNoChunks
    \/ AttemptStore
    \/ AttemptRaise
    \/ Record
    \/ Finalize
    \/ SaveOpen
    \/ SaveDump
    \/ RecoverLoad
    \/ RecoverUpdate
    \/ Return
    \/ Crash

Spec == Init /\ [][Next]_vars

TypeOK ==
    /\ file.kind \in {"absent", "truncated", "ok"}
    /\ pc \in {"idle", "resume_loaded", "loop", "attempt", "record", "final",
               "save_open", "save_dump", "recover_loaded", "done"}
    /\ runs \in 0..MaxRuns

(* ============ StateService driven directly by a client ================ *)
\* A caller holds one PipelineState and applies the public mutators of
\* StateService to it in any order; `runs` is the wall clock.
SvcInit ==
    /\ W \in WorkLists
    /\ site = [u \in Range(W) |-> "up"]
    /\ file = AbsentFile
    /\ store = {}
    /\ mem = create_initial_state(1, W, 0)
    /\ pc = "idle"
    /\ op = "none"
    /\ urls = << >>
    /\ i = 0
    /\ retry_count = 0
    /\ nchunks = 0
    /\ after_save = "none"
    /\ hash_randomized = FALSE
    /\ result = "none"
    /\ runs = 0
    /\ retry = NoRetry
    /\ slept = {}
    /\ limiter = RateLimiter(100, 1)
    /\ permits = << >>
    /\ threads = [t \in Workers |-> IdleThread]
    /\ locks = NoLocks
    /\ crawl = CrawlRateLimiter(100)
    /\ proc = NoProcess
    /\ dedup = NoDedup
    /\ ckpt = NoCheckpoints
    /\ embed = NoEmbedding
    /\ attempts = 0
    /\ chunker = NoChunking

SvcFrame ==
    UNCHANGED << W, site, file, store, pc, op, urls, i, retry_count, nchunks,
                 after_save, hash_randomized, result, harness >>

SvcUpdateState ==
    /\ \E s \in {"running", "completed", "failed"} : mem' = update_state(mem, s, runs)
    /\ UNCHANGED runs
    /\ SvcFrame

SvcAddProcessedUrl ==
    /\ \E u \in Range(W) : mem' = add_processed_url(mem, u)
    /\ UNCHANGED runs
    /\ SvcFrame

SvcAddFailedUrl ==
    /\ \E u \in Range(W) : mem' = add_failed_url(mem, u)
    /\ UNCHANGED runs
    /\ SvcFrame

SvcIncrementChunkCount ==
    /\ \E n \in 1..2 :
          /\ mem.total_chunks + n <= MaxChunks
          /\ mem' = increment_chunk_count(mem, n)
    /\ UNCHANGED runs
    /\ SvcFrame

SvcUpdateCheckpointData ==
    /\ \E idx \in 0..Len(W), u \in Range(W) : mem' = update_checkpoint_data(mem, idx, u)
    /\ UNCHANGED runs
    /\ SvcFrame

\* time passes between two calls
SvcClock ==
    /\ runs < MaxRuns
    /\ runs' = runs + 1
    /\ UNCHANGED mem
    /\ SvcFrame

SvcNext ==
    \/ SvcUpdateState
    \/ SvcAddProcessedUrl
    \/ SvcAddFailedUrl
    \/ SvcIncrementChunkCount
    \/ SvcUpdateCheckpointData
    \/ SvcClock

ServiceSpec == SvcInit /\ [][SvcNext]_vars

(* ======================= the retry engines ============================ *)
\* One engine at a time runs an operation that fails with one error message
\* or returns: the decorator retry_on_failure, ErrorService.retry_with_backoff,
\* the per-unit while loop of _process_remaining_urls and the per-item loop of
\* ErrorService.handle_batch_operation_error.
Engines ==
    { "retry_on_failure", "retry_with_backoff", "_process_remaining_urls",
      "handle_batch_operation_error" }

RetryInit ==
    /\ W = << 1 >>
    /\ site = [u \in Range(W) |-> "up"]
    /\ file = AbsentFile
    /\ store = {}
    /\ mem = NoState
    /\ pc = "idle"
    /\ op = "none"
    /\ urls = << >>
    /\ i = 0
    /\ retry_count = 0
    /\ nchunks = 0
    /\ after_save = "none"
    /\ hash_randomized = FALSE
    /\ result = "none"
    /\ runs = 0
    /\ retry = NoRetry
    /\ slept = {}
    /\ limiter = RateLimiter(100, 1)
    /\ permits = << >>
    /\ threads = [t \in Workers |-> IdleThread]
    /\ locks = NoLocks
    /\ crawl = CrawlRateLimiter(100)
    /\ proc = NoProcess
    /\ dedup = NoDedup
    /\ ckpt = NoCheckpoints
    /\ embed = NoEmbedding
    /\ attempts = 0
    /\ chunker = NoChunking

RetryFrame ==
    UNCHANGED << W, site, file, store, mem, pc, op, urls, i, retry_count, nchunks,
                 after_save, hash_randomized, result, runs, limiter, permits,
                 threads, locks, crawl, proc, dedup, ckpt, embed, attempts, chunker >>

\* the engine is called with max_retries and an operation; initial_delay and
\* delay default to 1.0
RetryStart ==
    /\ retry.pc \in {"idle", "returned", "raised", "gave_up"}
    /\ retry.runs < MaxEngineRuns
    /\ \E e \in Engines, m \in 1..MaxRetries, msg \in Messages :
          retry' = [engine |-> e, max_retries |-> m, error |-> msg, calls |-> 0,
                    fails |-> 0,
                    delay |-> IF e \in {"retry_on_failure", "retry_with_backoff"}
                              THEN 100 ELSE 0,
                    pc |-> "call", runs |-> retry.runs + 1]
    /\ UNCHANGED slept
    /\ RetryFrame

\* the operation returns: every engine hands the result back and stops
RetryCallReturns ==
    /\ retry.pc = "call"
    /\ retry' = [retry EXCEPT !.calls = @ + 1, !.pc = "returned"]
    /\ UNCHANGED slept
    /\ RetryFrame

\* time.sleep(d) after the failure of the given attempt
Sleep(attempt, d) ==
    slept' = slept \cup { [engine |-> retry.engine, kind |-> categorize_error(retry.error),
                           attempt |-> attempt, delay |-> d] }

\* retry_on_failure: the operation raises
RetryOnFailureRaises ==
    /\ retry.pc = "call"
    /\ retry.engine = "retry_on_failure"
    /\ LET retries == retry.fails + 1
       IN  IF retries >= retry.max_retries
           THEN /\ retry' = [retry EXCEPT !.calls = @ + 1, !.fails = retries, !.pc = "raised"]
                /\ UNCHANGED slept
           ELSE /\ retry' = [retry EXCEPT !.calls = @ + 1, !.fails = retries,
                                          !.delay = @ * 2]
                /\ Sleep(retries, retry.delay)
    /\ RetryFrame

\* retry_with_backoff: the operation raises in `for attempt in range(max_retries + 1)`
RetryWithBackoffRaises ==
    /\ retry.pc = "call"
    /\ retry.engine = "retry_with_backoff"
    /\ LET attempt == retry.calls
       IN  IF attempt = retry.max_retries
           THEN /\ retry' = [retry EXCEPT !.calls = @ + 1, !.fails = @ + 1, !.pc = "raised"]
                /\ UNCHANGED slept
           ELSE /\ \E jitter \in {0, MaxJitter(retry.delay * 2)} :
                      retry' = [retry EXCEPT !.calls = @ + 1, !.fails = @ + 1,
                                             !.delay = @ * 2 + jitter]
                /\ Sleep(attempt, retry.delay)
    /\ RetryFrame

\* _process_remaining_urls: the unit's workflow raises inside the while loop
ProcessUrlRaises ==
    /\ retry.pc = "call"
    /\ retry.engine = "_process_remaining_urls"
    /\ LET retry_cnt == retry.fails + 1
       IN  IF retry_cnt < retry.max_retries
           THEN /\ retry' = [retry EXCEPT !.calls = @ + 1, !.fails = retry_cnt]
                /\ Sleep(retry_cnt, Pow2(retry_cnt) * 100)
           ELSE /\ retry' = [retry EXCEPT !.calls = @ + 1, !.fails = retry_cnt,
                                          !.pc = "gave_up"]
                /\ UNCHANGED slept
    /\ RetryFrame

\* handle_batch_operation_error: operation_func(item) raises
BatchItemRaises ==
    /\ retry.pc = "call"
    /\ retry.engine = "handle_batch_operation_error"
    /\ LET attempt == retry.fails + 1
       IN  IF attempt >= retry.max_retries
           THEN /\ retry' = [retry EXCEPT !.calls = @ + 1, !.fails = attempt,
                                          !.pc = "gave_up"]
                /\ UNCHANGED slept
           ELSE /\ retry' = [retry EXCEPT !.calls = @ + 1, !.fails = attempt]
                /\ \E jitter \in {0, MaxJitter(get_retry_delay(retry.error, attempt, 0))} :
                      Sleep(attempt, get_retry_delay(retry.error, attempt, jitter))
    /\ RetryFrame

RetryNext ==
    \/ RetryStart
    \/ RetryCallReturns
    \/ RetryOnFailureRaises
    \/ RetryWithBackoffRaises
    \/ ProcessUrlRaises
    \/ BatchItemRaises

RetrySpec == RetryInit /\ [][RetryNext]_vars

(* ========================= the rate limiter =========================== *)
\* One caller at a time uses one RateLimiter: it calls acquire or wait for a
\* host, or lets time pass between two calls.
\* The limiters explored: RateLimiter(2.0, 2), and RateLimiter(0.5, 2) with
\* set_domain_limits("H", 0.67, burst=1).
LimiterConfigs ==
    { RateLimiter(200, 2),
      set_domain_limits(RateLimiter(50, 2), "H", 67, 1) }

LimiterInit ==
    /\ W = << 1 >>
    /\ site = [u \in Range(W) |-> "up"]
    /\ file = AbsentFile
    /\ store = {}
    /\ mem = NoState
    /\ pc = "idle"
    /\ op = "none"
    /\ urls = << >>
    /\ i = 0
    /\ retry_count = 0
    /\ nchunks = 0
    /\ after_save = "none"
    /\ hash_randomized = FALSE
    /\ result = "none"
    /\ runs = 0
    /\ retry = NoRetry
    /\ slept = {}
    /\ limiter \in LimiterConfigs
    /\ permits = << >>
    /\ threads = [t \in Workers |-> IdleThread]
    /\ locks = NoLocks
    /\ crawl = CrawlRateLimiter(100)
    /\ proc = NoProcess
    /\ dedup = NoDedup
    /\ ckpt = NoCheckpoints
    /\ embed = NoEmbedding
    /\ attempts = 0
    /\ chunker = NoChunking

LimiterFrame ==
    UNCHANGED << W, site, file, store, mem, pc, op, urls, i, retry_count, nchunks,
                 after_save, hash_randomized, result, runs, retry, slept,
                 threads, locks, crawl, proc, dedup, ckpt, embed, attempts, chunker >>

\* what the log keeps of a granted call: the host, the method, when it was
\* called, the oldest timestamp the host's window held then, when it returned
Permit(h, method, l) ==
    [host |-> h, method |-> method, called_at |-> limiter.now,
     oldest |-> IF limiter.domains[h].timestamps = << >> THEN None
                ELSE Head(limiter.domains[h].timestamps),
     at |-> l.now]

Acquire ==
    /\ Len(permits) < MaxCalls
    /\ \E h \in Hosts, blocking \in BOOLEAN :
          LET l == acquire(limiter, h, blocking)
          IN  /\ limiter' = l
              /\ permits' = IF l.last = "granted"
                            THEN Append(permits, Permit(h, "acquire", l))
                            ELSE permits
    /\ LimiterFrame

Wait ==
    /\ Len(permits) < MaxCalls
    /\ \E h \in Hosts :
          LET l == wait(limiter, h)
          IN  /\ limiter' = l
              /\ permits' = Append(permits, Permit(h, "wait", l))
    /\ LimiterFrame

\* the caller does something else for 0.3 s before its next call
Elapse ==
    /\ limiter.pauses < MaxPauses
    /\ Len(permits) < MaxCalls
    /\ limiter' = [limiter EXCEPT !.now = @ + 30, !.pauses = @ + 1]
    /\ UNCHANGED permits
    /\ LimiterFrame

LimiterNext ==
    \/ Acquire
    \/ Wait
    \/ Elapse

LimiterSpec == LimiterInit /\ [][LimiterNext]_vars

(* ================ the rate limiter under several workers =============== *)
\* The workers of ConcurrentSpec are threads of one process that share one
\* RateLimiter; limiter.now is the wall clock every time.time() reads.  A `with
\* lock:` block whose body does not sleep is one step; a body that sleeps
\* keeps the lock across the sleep; each statement outside a lock is a step.
\* The limiter is RateLimiter(), 1 request per second and burst 1.
ConcurrentInit ==
    /\ W = << 1 >>
    /\ site = [u \in Range(W) |-> "up"]
    /\ file = AbsentFile
    /\ store = {}
    /\ mem = NoState
    /\ pc = "idle"
    /\ op = "none"
    /\ urls = << >>
    /\ i = 0
    /\ retry_count = 0
    /\ nchunks = 0
    /\ after_save = "none"
    /\ hash_randomized = FALSE
    /\ result = "none"
    /\ runs = 0
    /\ retry = NoRetry
    /\ slept = {}
    /\ limiter = RateLimiter(100, 1)
    /\ permits = << >>
    /\ threads = [t \in Workers |-> IdleThread]
    /\ locks = NoLocks
    /\ crawl = CrawlRateLimiter(100)
    /\ proc = NoProcess
    /\ dedup = NoDedup
    /\ ckpt = NoCheckpoints
    /\ embed = NoEmbedding
    /\ attempts = 0
    /\ chunker = NoChunking

ConcurrentFrame ==
    UNCHANGED << W, site, file, store, mem, pc, op, urls, i, retry_count, nchunks,
                 after_save, hash_randomized, result, runs, retry, slept, crawl, proc, dedup,
                 ckpt, embed, attempts, chunker >>

\* thread t is back in its caller
Returned(t) == [IdleThread EXCEPT !.calls = threads[t].calls]

\* the call of thread t returns a permit
Granted(t, method) ==
    Append(permits, [host |-> threads[t].host, method |-> method,
                     called_at |-> threads[t].called_at, oldest |-> None,
                     at |-> limiter.now])

\* acquire(url, blocking): domain = urlparse(url).netloc; now = time.time()
CallAcquire(t) ==
    /\ threads[t].pc = "idle"
    /\ threads[t].calls < MaxThreadCalls
    /\ \E h \in Hosts, blocking \in BOOLEAN :
          threads' = [threads EXCEPT ![t] =
                         [pc |-> "acq_dom", host |-> h, blocking |-> blocking,
                          now |-> limiter.now, wake |-> 0, called_at |-> limiter.now,
                          calls |-> @.calls + 1]]
    /\ UNCHANGED << limiter, permits, locks >>
    /\ ConcurrentFrame

\* with domain_config['lock']: prune, and when the burst is reached return
\* False (non-blocking) or sleep inside the lock
AcquireDomain(t) ==
    LET th == threads[t]
        dom == limiter.domains[th.host]
        ts == Prune(dom.timestamps, th.now - Window(dom.rate))
    IN  /\ th.pc = "acq_dom"
        /\ locks[th.host] = 0
        /\ limiter' = [limiter EXCEPT !.domains[th.host].timestamps = ts]
        /\ IF Len(ts) >= dom.burst
           THEN IF ~th.blocking
                THEN /\ threads' = [threads EXCEPT ![t] = Returned(t)]
                     /\ UNCHANGED locks
                ELSE IF AfterSleep(ts, dom.rate, th.now) > th.now
                THEN /\ threads' = [threads EXCEPT ![t].pc = "acq_dom_sleep",
                                       ![t].wake = AfterSleep(ts, dom.rate, th.now)]
                     /\ locks' = [locks EXCEPT ![th.host] = t]
                ELSE /\ threads' = [threads EXCEPT ![t].pc = "acq_glob"]
                     /\ UNCHANGED locks
           ELSE /\ threads' = [threads EXCEPT ![t].pc = "acq_glob"]
                /\ UNCHANGED locks
        /\ UNCHANGED permits
        /\ ConcurrentFrame

\* time.sleep(sleep_time) returns; now = time.time(); the lock is released
AcquireDomainWake(t) ==
    /\ threads[t].pc = "acq_dom_sleep"
    /\ limiter.now >= threads[t].wake
    /\ threads' = [threads EXCEPT ![t].pc = "acq_glob", ![t].now = limiter.now]
    /\ locks' = [locks EXCEPT ![threads[t].host] = 0]
    /\ UNCHANGED << limiter, permits >>
    /\ ConcurrentFrame

\* with self.global_lock: the same on the global window
AcquireGlobal(t) ==
    LET th == threads[t]
        glob == limiter.global
        ts == Prune(glob.timestamps, th.now - Window(glob.rate))
    IN  /\ th.pc = "acq_glob"
        /\ locks["global"] = 0
        /\ limiter' = [limiter EXCEPT !.global.timestamps = ts]
        /\ IF Len(ts) >= glob.burst
           THEN IF ~th.blocking
                THEN /\ threads' = [threads EXCEPT ![t] = Returned(t)]
                     /\ UNCHANGED locks
                ELSE IF AfterSleep(ts, glob.rate, th.now) > th.now
                THEN /\ threads' = [threads EXCEPT ![t].pc = "acq_glob_sleep",
                                       ![t].wake = AfterSleep(ts, glob.rate, th.now)]
                     /\ locks' = [locks EXCEPT !["global"] = t]
                ELSE /\ threads' = [threads EXCEPT ![t].pc = "acq_append_dom"]
                     /\ UNCHANGED locks
           ELSE /\ threads' = [threads EXCEPT ![t].pc = "acq_append_dom"]
                /\ UNCHANGED locks
        /\ UNCHANGED permits
        /\ ConcurrentFrame

AcquireGlobalWake(t) ==
    /\ threads[t].pc = "acq_glob_sleep"
    /\ limiter.now >= threads[t].wake
    /\ threads' = [threads EXCEPT ![t].pc = "acq_append_dom", ![t].now = limiter.now]
    /\ locks' = [locks EXCEPT !["global"] = 0]
    /\ UNCHANGED << limiter, permits >>
    /\ ConcurrentFrame

\* domain_config['timestamps'].append(now), after both with-blocks
AcquireAppendDomain(t) ==
    /\ threads[t].pc = "acq_append_dom"
    /\ limiter' = [limiter EXCEPT
                      !.domains[threads[t].host].timestamps = Append(@, threads[t].now)]
    /\ threads' = [threads EXCEPT ![t].pc = "acq_append_glob"]
    /\ UNCHANGED << permits, locks >>
    /\ ConcurrentFrame

\* self.global_timestamps.append(now); return True
AcquireAppendGlobal(t) ==
    /\ threads[t].pc = "acq_append_glob"
    /\ limiter' = [limiter EXCEPT !.global.timestamps = Append(@, threads[t].now)]
    /\ threads' = [threads EXCEPT ![t] = Returned(t)]
    /\ permits' = Granted(t, "acquire")
    /\ UNCHANGED locks
    /\ ConcurrentFrame

\* wait(url)
CallWait(t) ==
    /\ threads[t].pc = "idle"
    /\ threads[t].calls < MaxThreadCalls
    /\ \E h \in Hosts :
          threads' = [threads EXCEPT ![t] =
                         [pc |-> "wait_dom", host |-> h, blocking |-> TRUE,
                          now |-> limiter.now, wake |-> 0, called_at |-> limiter.now,
                          calls |-> @.calls + 1]]
    /\ UNCHANGED << limiter, permits, locks >>
    /\ ConcurrentFrame

\* with domain_config['lock']: _wait_for_capacity(...) up to its sleep, or to
\* its end when it does not sleep
WaitDomain(t) ==
    LET th == threads[t]
        dom == limiter.domains[th.host]
        ts == Prune(dom.timestamps, limiter.now - Window(dom.rate))
    IN  /\ th.pc = "wait_dom"
        /\ locks[th.host] = 0
        /\ IF Len(ts) >= dom.burst /\ AfterSleep(ts, dom.rate, limiter.now) > limiter.now
           THEN /\ limiter' = [limiter EXCEPT !.domains[th.host].timestamps = ts]
                /\ threads' = [threads EXCEPT ![t].pc = "wait_dom_sleep",
                                  ![t].wake = AfterSleep(ts, dom.rate, limiter.now)]
                /\ locks' = [locks EXCEPT ![th.host] = t]
           ELSE /\ limiter' = [limiter EXCEPT
                                  !.domains[th.host].timestamps = Append(ts, limiter.now)]
                /\ threads' = [threads EXCEPT ![t].pc = "wait_glob"]
                /\ UNCHANGED locks
        /\ UNCHANGED permits
        /\ ConcurrentFrame

\* the sleep returns: now = time.time(); timestamps.append(now); lock released
WaitDomainWake(t) ==
    /\ threads[t].pc = "wait_dom_sleep"
    /\ limiter.now >= threads[t].wake
    /\ limiter' = [limiter EXCEPT
                      !.domains[threads[t].host].timestamps = Append(@, limiter.now)]
    /\ threads' = [threads EXCEPT ![t].pc = "wait_glob"]
    /\ locks' = [locks EXCEPT ![threads[t].host] = 0]
    /\ UNCHANGED permits
    /\ ConcurrentFrame

\* with self.global_lock: _wait_for_capacity(...) on the global window
WaitGlobal(t) ==
    LET glob == limiter.global
        ts == Prune(glob.timestamps, limiter.now - Window(glob.rate))
    IN  /\ threads[t].pc = "wait_glob"
        /\ locks["global"] = 0
        /\ IF Len(ts) >= glob.burst /\ AfterSleep(ts, glob.rate, limiter.now) > limiter.now
           THEN /\ limiter' = [limiter EXCEPT !.global.timestamps = ts]
                /\ threads' = [threads EXCEPT ![t].pc = "wait_glob_sleep",
                                  ![t].wake = AfterSleep(ts, glob.rate, limiter.now)]
                /\ locks' = [locks EXCEPT !["global"] = t]
                /\ UNCHANGED permits
           ELSE /\ limiter' = [limiter EXCEPT !.global.timestamps = Append(ts, limiter.now)]
                /\ threads' = [threads EXCEPT ![t] = Returned(t)]
                /\ permits' = Granted(t, "wait")
                /\ UNCHANGED locks
        /\ ConcurrentFrame

WaitGlobalWake(t) ==
    /\ threads[t].pc = "wait_glob_sleep"
    /\ limiter.now >= threads[t].wake
    /\ limiter' = [limiter EXCEPT !.global.timestamps = Append(@, limiter.now)]
    /\ threads' = [threads EXCEPT ![t] = Returned(t)]
    /\ locks' = [locks EXCEPT !["global"] = 0]
    /\ permits' = Granted(t, "wait")
    /\ ConcurrentFrame

SleepPcs == {"acq_dom_sleep", "acq_glob_sleep", "wait_dom_sleep", "wait_glob_sleep"}

\* the wall clock reaches the next time at which a sleeping thread is due
Tick ==
    LET due == { threads[t].wake : t \in { x \in Workers : threads[x].pc \in SleepPcs } }
        pending == { w \in due : w > limiter.now }
    IN  /\ pending # {}
        /\ limiter' = [limiter EXCEPT !.now = CHOOSE w \in pending : \A v \in pending : w <= v]
        /\ UNCHANGED << permits, threads, locks >>
        /\ ConcurrentFrame

\* 0.3 s pass while no thread is due
ConcurrentElapse ==
    /\ limiter.pauses < MaxPauses
    /\ \A t \in Workers : threads[t].pc \notin SleepPcs
    /\ limiter' = [limiter EXCEPT !.now = @ + 30, !.pauses = @ + 1]
    /\ UNCHANGED << permits, threads, locks >>
    /\ ConcurrentFrame

ConcurrentNext ==
    \/ \E t \in Workers : CallAcquire(t)
    \/ \E t \in Workers : AcquireDomain(t)
    \/ \E t \in Workers : AcquireDomainWake(t)
    \/ \E t \in Workers : AcquireGlobal(t)
    \/ \E t \in Workers : AcquireGlobalWake(t)
    \/ \E t \in Workers : AcquireAppendDomain(t)
    \/ \E t \in Workers : AcquireAppendGlobal(t)
    \/ \E t \in Workers : CallWait(t)
    \/ \E t \in Workers : WaitDomain(t)
    \/ \E t \in Workers : WaitDomainWake(t)
    \/ \E t \in Workers : WaitGlobal(t)
    \/ \E t \in Workers : WaitGlobalWake(t)
    \/ Tick
    \/ ConcurrentElapse

ConcurrentSpec == ConcurrentInit /\ [][ConcurrentNext]_vars

(* ====================== the crawl rate limiter ======================== *)
\* One crawler owns one CrawlRateLimiter: it sets per-host delays and records
\* the outcome of each request.  default_delay is 0, 1 or 10 s; a host's delay
\* is set to 2 s or to 100 s.
DefaultDelays == {0, 100, 1000}

DomainDelays == {200, 10000}

CrawlInit ==
    /\ W = << 1 >>
    /\ site = [u \in Range(W) |-> "up"]
    /\ file = AbsentFile
    /\ store = {}
    /\ mem = NoState
    /\ pc = "idle"
    /\ op = "none"
    /\ urls = << >>
    /\ i = 0
    /\ retry_count = 0
    /\ nchunks = 0
    /\ after_save = "none"
    /\ hash_randomized = FALSE
    /\ result = "none"
    /\ runs = 0
    /\ retry = NoRetry
    /\ slept = {}
    /\ limiter = RateLimiter(100, 1)
    /\ permits = << >>
    /\ threads = [t \in Workers |-> IdleThread]
    /\ locks = NoLocks
    /\ crawl \in { CrawlRateLimiter(d) : d \in DefaultDelays }
    /\ proc = NoProcess
    /\ dedup = NoDedup
    /\ ckpt = NoCheckpoints
    /\ embed = NoEmbedding
    /\ attempts = 0
    /\ chunker = NoChunking

CrawlFrame ==
    UNCHANGED << W, site, file, store, mem, pc, op, urls, i, retry_count, nchunks,
                 after_save, hash_randomized, result, runs, retry, slept, limiter,
                 permits, threads, locks, proc, dedup, ckpt, embed, attempts, chunker >>

SetDomainDelay ==
    /\ \E h \in Hosts, d \in DomainDelays : crawl' = set_domain_delay(crawl, h, d)
    /\ CrawlFrame

\* a request to host h ended (one clock tick after the call before)
RecordRequest ==
    /\ crawl.now < MaxRequests
    /\ \E h \in Hosts, success \in BOOLEAN :
          crawl' = record_request([crawl EXCEPT !.now = @ + 1], h, success)
    /\ CrawlFrame

CrawlNext ==
    \/ SetDomainDelay
    \/ RecordRequest

CrawlSpec == CrawlInit /\ [][CrawlNext]_vars

(* ========================= the command line =========================== *)
\* main(): load and validate the configuration, build the services, run
\* run_ingestion_pipeline under retry_on_failure(max_retries=3) and exit.  With
\* --resume the run goes through ResumeService.resume_pipeline, whose steps are
\* the ones above.  The environment is valid ("ok"), rejected by get_config
\* ("invalid_config") or rejected by validate_configuration ("invalid_input").
Environments == {"ok", "invalid_config", "invalid_input"}

\* retry_on_failure(max_retries=3, delay=2.0) on run_ingestion_pipeline
TopLevelRetries == 3

\* what a run of restart_pipeline_from_scratch that was killed may have left:
\* nothing, the initial state, or the state saved after its first unit
LeftBehind ==
    LET s0 == create_initial_state(0, W, 0)
        s1 == increment_chunk_count(
                 add_processed_url(update_checkpoint_data(s0, 0, W[1]), W[1]),
                 NChunks(W[1]))
    IN  { [file |-> AbsentFile, store |-> {}],
          [file |-> WrittenFile(s0), store |-> {}] }
        \cup (IF site[W[1]] = "up"
              THEN { [file |-> WrittenFile(s1), store |-> crawl_chunks(0, W[1])] }
              ELSE {})

MainInit ==
    /\ W \in WorkLists
    /\ site \in [Range(W) -> {"up", "down"}]
    /\ \E left \in LeftBehind : file = left.file /\ store = left.store
    /\ mem = NoState
    /\ pc = "idle"
    /\ op = "none"
    /\ urls = << >>
    /\ i = 0
    /\ retry_count = 0
    /\ nchunks = 0
    /\ after_save = "none"
    /\ hash_randomized = TRUE
    /\ result = "none"
    /\ runs = 0
    /\ retry = NoRetry
    /\ slept = {}
    /\ limiter = RateLimiter(100, 1)
    /\ permits = << >>
    /\ threads = [t \in Workers |-> IdleThread]
    /\ locks = NoLocks
    /\ crawl = CrawlRateLimiter(100)
    /\ proc = NoProcess
    /\ dedup = NoDedup
    /\ ckpt = NoCheckpoints
    /\ embed = NoEmbedding
    /\ attempts = 0
    /\ chunker = NoChunking

\* what main() leaves alone outside resume_pipeline
MainFrame ==
    UNCHANGED << W, site, mem, pc, op, urls, i, retry_count, nchunks, after_save,
                 hash_randomized, result, retry, slept, limiter, permits, threads,
                 locks, crawl, dedup, ckpt, embed, attempts, chunker >>

\* sys.exit(0) when run_ingestion_pipeline returned True, sys.exit(1) otherwise,
\* always reporting success
exit_code_always_zero(success) ==
    0

\* sys.exit(0) when run_ingestion_pipeline returned True, sys.exit(1) otherwise
exit_code_of(success) ==
    IF success THEN 0 ELSE 1

\* sys.exit(code); stage names what failed ("none": nothing)
Exit(code, stage) ==
    proc' = [proc EXCEPT !.pc = "exited", !.exit_code = code, !.failed_stage = stage]

\* run_ingestion_pipeline returns success to main
RunReturns(success, stage) == Exit(exit_code_of(success), stage)

\* get_resume_recommendation()['action']
get_resume_recommendation(st) ==
    CASE st = NoState -> "start_new"
      [] st.status = "completed" -> "completed"
      [] st.status = "failed" -> "resume"
      [] st.status = "running" -> "check_progress"
      [] OTHER -> "resume"

\* the operator starts the program
MainStart ==
    /\ proc.pc \in {"off", "exited"}
    /\ pc = "idle"
    /\ runs < MaxRuns
    /\ runs' = runs + 1
    /\ \E r \in BOOLEAN, v \in BOOLEAN, e \in Environments :
          proc' = [NoProcess EXCEPT !.pc = "config", !.resume = r, !.validate_only = v,
                                    !.env = e]
    /\ UNCHANGED << file, store >>
    /\ MainFrame

\* config = get_config(): raises ValueError when Config.validate() finds errors
MainGetConfig ==
    /\ proc.pc = "config"
    /\ IF proc.env = "invalid_config"
       THEN Exit(1, "config")
       ELSE proc' = [proc EXCEPT !.pc = "validate"]
    /\ UNCHANGED << file, store, runs >>
    /\ MainFrame

\* validate_configuration(config), then --validate-only
MainValidate ==
    /\ proc.pc = "validate"
    /\ IF proc.env = "invalid_input"
       THEN Exit(1, "validation")
       ELSE IF proc.validate_only
       THEN proc' = [proc EXCEPT !.pc = "exited", !.exit_code = 0, !.validated = TRUE]
       ELSE proc' = [proc EXCEPT !.pc = "services", !.validated = TRUE]
    /\ UNCHANGED << file, store, runs >>
    /\ MainFrame

\* create_services(config): the Cohere and Qdrant clients are constructed
MainCreateServices ==
    /\ proc.pc = "services"
    /\ proc' = [proc EXCEPT !.pc = "run", !.io = @ \cup {"clients"}]
    /\ UNCHANGED << file, store, runs >>
    /\ MainFrame

\* run_ingestion_pipeline is entered (first call or a retry of the wrapper)
MainRun ==
    /\ proc.pc = "run"
    /\ LET action == get_resume_recommendation(load_state(file))
       IN  IF proc.resume /\ action \in {"resume", "check_progress"}
           THEN proc' = [proc EXCEPT !.pc = "resuming", !.failed_stage = "none"]
           ELSE IF proc.resume /\ action = "completed"
           THEN RunReturns(TRUE, "none")
           ELSE proc' = [proc EXCEPT !.pc = "collection", !.failed_stage = "none"]
    /\ UNCHANGED << file, store, runs >>
    /\ MainFrame

\* state = resume_service.resume_pipeline() returned: `if state: return True`,
\* else the run goes on as a fresh one
MainResumeReturned ==
    /\ proc.pc = "resuming"
    /\ pc = "done"
    /\ IF result \in {"state", "already_completed"}
       THEN RunReturns(TRUE, "none")
       ELSE proc' = [proc EXCEPT !.pc = "collection"]
    /\ pc' = "idle"
    /\ op' = "none"
    /\ result' = "none"
    /\ mem' = NoState
    /\ urls' = << >>
    /\ i' = 0
    /\ retry_count' = 0
    /\ nchunks' = 0
    /\ after_save' = "none"
    /\ attempts' = 0
    /\ UNCHANGED << W, site, file, store, hash_randomized, runs, retry, slept, limiter,
                    permits, threads, locks, crawl, dedup, ckpt, embed, chunker >>

\* the steps of resume_pipeline inside this process
MainResumeStep ==
    /\ proc.pc = "resuming"
    /\ \/ ResumeLoad
       \/ ResumeDecide
       \/ LoopHead
       \/ AttemptNoChunks
       \/ AttemptStore
       \/ AttemptRaise
       \/ Record
       \/ Finalize
       \/ SaveOpen
       \/ SaveDump

\* save_state: open() or json.dump() raises (disk full, no permission); the
\* exception is logged, False is returned and the caller goes on
SaveFails ==
    /\ proc.pc = "resuming"
    /\ pc = "save_open"
    /\ AfterSave
    /\ proc' = [proc EXCEPT !.save_failed = TRUE]
    /\ UNCHANGED << W, site, file, store, mem, op, urls, retry_count, nchunks, after_save,
                    hash_randomized, runs, retry, slept, limiter, permits, threads,
                    locks, crawl, dedup, ckpt, embed, attempts, chunker >>

\* create_collection_if_needed(qdrant_service, vector_size)
MainCreateCollection ==
    /\ proc.pc = "collection"
    /\ \E reachable \in BOOLEAN :
          IF reachable
          THEN proc' = [proc EXCEPT !.pc = "crawl", !.io = @ \cup {"qdrant"}]
          ELSE /\ RunReturns(FALSE, "collection")
    /\ UNCHANGED << file, store, runs >>
    /\ MainFrame

\* an exception escapes run_ingestion_pipeline outside its try block: the
\* wrapper of retry_on_failure calls it again until max_retries is reached,
\* then raises, and main() exits with 1
MainRunRaises ==
    /\ proc.pc = "collection"
    /\ IF proc.retries + 1 >= TopLevelRetries
       THEN proc' = [proc EXCEPT !.pc = "exited", !.exit_code = 1,
                                 !.failed_stage = "exception", !.retries = @ + 1]
       ELSE proc' = [proc EXCEPT !.pc = "run", !.failed_stage = "exception",
                                 !.retries = @ + 1]
    /\ UNCHANGED << file, store, runs >>
    /\ MainFrame

\* the chunks of every page of the site that can be fetched
all_chunks == UNION { crawl_chunks(HashSeed, u) : u \in { x \in Range(W) : site[x] = "up" } }

\* chunks = crawl_service.crawl_with_progress_callback(...)
MainCrawl ==
    /\ proc.pc = "crawl"
    /\ \E raises \in BOOLEAN :
          IF raises
          THEN RunReturns(FALSE, "crawl")
          ELSE IF all_chunks = {}
          THEN proc' = [proc EXCEPT !.pc = "exited", !.exit_code = exit_code_of(TRUE),
                                    !.io = @ \cup {"crawl"}]
          ELSE proc' = [proc EXCEPT !.pc = "store", !.io = @ \cup {"crawl"}]
    /\ UNCHANGED << file, store, runs >>
    /\ MainFrame

\* result = vector_service.process_and_store_chunks(chunks)
MainStore ==
    /\ proc.pc = "store"
    /\ \E success \in BOOLEAN :
          IF success
          THEN /\ store' = store_chunks_with_deduplication(store, all_chunks, {})
               /\ proc' = [proc EXCEPT !.pc = "exited", !.exit_code = exit_code_of(TRUE),
                                       !.io = @ \cup {"embed_store"}]
          ELSE /\ store' = store
               /\ proc' = [proc EXCEPT !.pc = "exited", !.exit_code = exit_code_of(FALSE),
                                       !.failed_stage = "store",
                                       !.io = @ \cup {"embed_store"}]
    /\ UNCHANGED << file, runs >>
    /\ MainFrame

\* the process is killed (operator abort, power loss) at any point
MainCrash ==
    /\ proc.pc \notin {"off", "exited"}
    /\ proc' = NoProcess
    /\ ClearProcess
    /\ attempts' = 0
    /\ UNCHANGED << W, site, file, store, hash_randomized, runs, retry, slept, limiter,
                    permits, threads, locks, crawl, dedup, ckpt, embed, chunker >>

MainNext ==
    \/ MainStart
    \/ MainGetConfig
    \/ MainValidate
    \/ MainCreateServices
    \/ MainRun
    \/ MainResumeStep
    \/ MainResumeReturned
    \/ SaveFails
    \/ MainCreateCollection
    \/ MainRunRaises
    \/ MainCrawl
    \/ MainStore
    \/ MainCrash

MainSpec == MainInit /\ [][MainNext]_vars

(* ======================== the duplicate service ======================= *)
\* Strings are sequences of pieces; a piece is a run of characters that the
\* model never splits.  No piece is a prefix of another, so two sequences are
\* equal exactly when the strings they spell are equal.
Pieces == {"T", "_", "http://a/p", "http://b", "_len", "0", "1", "2", "3", "4",
           "5", "6", "7", "8", "9"}

\* len() of a piece, in characters
PieceLen(p) ==
    CASE p = "http://a/p" -> 10
      [] p = "http://b" -> 8
      [] p = "_len" -> 4
      [] OTHER -> 1

\* len(s)
RECURSIVE StrLen(_)
StrLen(s) == IF s = << >> THEN 0 ELSE PieceLen(Head(s)) + StrLen(Tail(s))

\* str(n) for n >= 0
RECURSIVE Str(_)
Str(n) ==
    LET digit == << "0", "1", "2", "3", "4", "5", "6", "7", "8", "9" >>[(n % 10) + 1]
    IN  IF n < 10 THEN << digit >> ELSE Str(n \div 10) \o << digit >>

\* hashlib.sha256(s.encode('utf-8')).hexdigest(), taken as injective: the
\* digest stands for the string it was computed from
sha256(s) == [digest_of |-> s]

\* content_hash = sha256(f"{chunk.content}_{chunk.source_url}")
content_hash(chunk) ==
    sha256(chunk.content \o << "_" >> \o chunk.source_url)

\* get_content_fingerprint(content, source_url)
get_content_fingerprint(content, source_url) ==
    sha256(content \o << "_" >> \o source_url \o << "_len" >> \o Str(StrLen(content)))

\* the loop of remove_duplicates_by_content over chunks[k..], with the hashes
\* seen so far
RECURSIVE remove_loop(_, _, _)
remove_loop(chunks, k, seen_hashes) ==
    IF k > Len(chunks) THEN << >>
    ELSE IF content_hash(chunks[k]) \notin seen_hashes
         THEN << chunks[k] >>
              \o remove_loop(chunks, k + 1, seen_hashes \cup {content_hash(chunks[k])})
         ELSE remove_loop(chunks, k + 1, seen_hashes)

\* remove_duplicates_by_content that keeps the last chunk of each hash
remove_duplicates_keep_last(chunks) ==
    LET RECURSIVE from(_)
        from(k) ==
            IF k > Len(chunks) THEN << >>
            ELSE IF \A j \in (k + 1)..Len(chunks) :
                       content_hash(chunks[j]) # content_hash(chunks[k])
                 THEN << chunks[k] >> \o from(k + 1)
                 ELSE from(k + 1)
    IN  from(1)

remove_duplicates_by_content(chunks) ==
    remove_loop(chunks, 1, {})

\* the loop of detect_duplicates_by_content (previews are whole contents: no
\* content of the model is longer than 100 characters)
RECURSIVE detect_loop(_, _, _)
detect_loop(chunks, k, seen_hashes) ==
    IF k > Len(chunks) THEN << >>
    ELSE IF content_hash(chunks[k]) \in seen_hashes
         THEN << [chunk_id |-> chunks[k].id, content_hash |-> content_hash(chunks[k]),
                  source_url |-> chunks[k].source_url,
                  content_preview |-> chunks[k].content] >>
              \o detect_loop(chunks, k + 1, seen_hashes)
         ELSE detect_loop(chunks, k + 1, seen_hashes \cup {content_hash(chunks[k])})

detect_duplicates_by_content(chunks) ==
    detect_loop(chunks, 1, {})

\* the batches handed to the service
MaxBatch == 3

ChunkIds == {"c1", "c2"}

Contents == { << "T" >>, << "T", "_", "http://a/p" >> }

SourceUrls == { << "http://a/p" >>, << "http://b" >>, << "http://a/p", "_", "http://b" >> }

DocumentChunks == [id : ChunkIds, content : Contents, source_url : SourceUrls]

Batches == UNION { [1..n -> DocumentChunks] : n \in 1..MaxBatch }

DedupInit ==
    /\ W \in WorkLists
    /\ site \in [Range(W) -> {"up"}]
    /\ file = AbsentFile
    /\ store = {}
    /\ mem = NoState
    /\ pc = "idle"
    /\ op = "none"
    /\ urls = << >>
    /\ i = 0
    /\ retry_count = 0
    /\ nchunks = 0
    /\ after_save = "none"
    /\ hash_randomized = TRUE
    /\ result = "none"
    /\ runs = 0
    /\ retry = NoRetry
    /\ slept = {}
    /\ limiter = RateLimiter(100, 1)
    /\ permits = << >>
    /\ threads = [t \in Workers |-> IdleThread]
    /\ locks = NoLocks
    /\ crawl = CrawlRateLimiter(100)
    /\ proc = NoProcess
    /\ \E b \in Batches : dedup = [NoDedup EXCEPT !.batch = b]
    /\ ckpt = NoCheckpoints
    /\ embed = NoEmbedding
    /\ attempts = 0
    /\ chunker = NoChunking

DedupFrame ==
    UNCHANGED << W, site, file, store, mem, pc, op, urls, i, retry_count, nchunks,
                 after_save, hash_randomized, result, runs, retry, slept, limiter,
                 permits, threads, locks, crawl, proc, ckpt, embed, attempts, chunker >>

\* unique = remove_duplicates_by_content(batch)
RemoveDuplicates ==
    /\ dedup' = [dedup EXCEPT !.removed = TRUE,
                              !.unique = remove_duplicates_by_content(dedup.batch)]
    /\ DedupFrame

\* duplicates = detect_duplicates_by_content(batch)
DetectDuplicates ==
    /\ dedup' = [dedup EXCEPT !.detected = TRUE,
                              !.duplicates = detect_duplicates_by_content(dedup.batch)]
    /\ DedupFrame

\* get_content_fingerprint(chunk.content, chunk.source_url) for every chunk of
\* the batch, as validate_idempotency makes it
Fingerprints ==
    /\ dedup' = [dedup EXCEPT
                    !.fingerprinted = TRUE,
                    !.fingerprints =
                        [k \in 1..Len(dedup.batch) |->
                            get_content_fingerprint(dedup.batch[k].content,
                                                    dedup.batch[k].source_url)]]
    /\ DedupFrame

DedupNext ==
    \/ RemoveDuplicates
    \/ DetectDuplicates
    \/ Fingerprints

DedupSpec == DedupInit /\ [][DedupNext]_vars

(* ======================== the checkpoint service ====================== *)
\* Checkpoint ids and file names are strings made of pieces ("a", "b",
\* ".json") that the model never splits.  A checkpoint is reduced to its id
\* and its timestamp.

\* how many checkpoints are created in one behaviour
MaxCheckpoints == 3

\* the files that exist in the directory
Existing(dir) == { f \in CheckpointFiles : dir[f] # NoCheckpointFile }

\* os.listdir: the existing files in any order
Listings(dir) ==
    { l \in [1..Cardinality(Existing(dir)) -> Existing(dir)] :
         \A j, k \in 1..Cardinality(Existing(dir)) : l[j] = l[k] => j = k }

\* f.endswith('.json')
EndsWithJson(f) == f # << >> /\ f[Len(f)] = ".json"

\* f.replace('.json', ''): every occurrence is removed
ReplaceJson(f) == SelectSeq(f, LAMBDA p : p # ".json")

\* [f.replace('.json', '') for f in files if f.endswith('.json')]
RECURSIVE list_checkpoints(_)
list_checkpoints(files) ==
    IF files = << >> THEN << >>
    ELSE (IF EndsWithJson(Head(files)) THEN << ReplaceJson(Head(files)) >> ELSE << >>)
         \o list_checkpoints(Tail(files))

\* load_checkpoint(checkpoint_id): None when "<id>.json" does not exist
load_checkpoint(dir, checkpoint_id) ==
    IF checkpoint_id \o << ".json" >> \in Existing(dir)
    THEN dir[checkpoint_id \o << ".json" >>]
    ELSE NoCheckpointFile

\* the loop of get_latest_checkpoint over checkpoint_ids[k..]
RECURSIVE latest_loop(_, _, _, _)
latest_loop(dir, checkpoint_ids, k, latest_checkpoint) ==
    IF k > Len(checkpoint_ids) THEN latest_checkpoint
    ELSE LET checkpoint == load_checkpoint(dir, checkpoint_ids[k])
         IN  IF /\ checkpoint # NoCheckpointFile
                /\ (\/ latest_checkpoint = NoCheckpointFile
                    \/ checkpoint.timestamp > latest_checkpoint.timestamp)
             THEN latest_loop(dir, checkpoint_ids, k + 1, checkpoint)
             ELSE latest_loop(dir, checkpoint_ids, k + 1, latest_checkpoint)

\* get_latest_checkpoint() when os.listdir answers files
get_latest_checkpoint(dir, files) ==
    latest_loop(dir, list_checkpoints(files), 1, NoCheckpointFile)

CheckpointInit ==
    /\ W \in WorkLists
    /\ site \in [Range(W) -> {"up"}]
    /\ file = AbsentFile
    /\ store = {}
    /\ mem = NoState
    /\ pc = "idle"
    /\ op = "none"
    /\ urls = << >>
    /\ i = 0
    /\ retry_count = 0
    /\ nchunks = 0
    /\ after_save = "none"
    /\ hash_randomized = TRUE
    /\ result = "none"
    /\ runs = 0
    /\ retry = NoRetry
    /\ slept = {}
    /\ limiter = RateLimiter(100, 1)
    /\ permits = << >>
    /\ threads = [t \in Workers |-> IdleThread]
    /\ locks = NoLocks
    /\ crawl = CrawlRateLimiter(100)
    /\ proc = NoProcess
    /\ dedup = NoDedup
    /\ ckpt = NoCheckpoints
    /\ embed = NoEmbedding
    /\ attempts = 0
    /\ chunker = NoChunking

CheckpointFrame ==
    UNCHANGED << W, site, file, store, mem, pc, op, urls, i, retry_count, nchunks,
                 after_save, hash_randomized, result, runs, retry, slept, limiter,
                 permits, threads, locks, crawl, proc, dedup, embed, attempts, chunker >>

\* what the callers pass as chunks: DocumentChunk objects (kind "chunk") or
\* plain chunk ids (kind "str")
ChunkLists(kind) == { << >>, << [kind |-> kind, id |-> "c1"] >> }

UrlLists == { << "u1" >> }

\* the creators of the service
Creators ==
    {"create_checkpoint", "create_url_checkpoint", "create_chunk_checkpoint",
     "create_embedding_checkpoint", "create_storage_checkpoint"}

\* [chunk.id for chunk in processed_chunks] raises AttributeError on a str
RaisesOnIds(processed_chunks) ==
    \E k \in 1..Len(processed_chunks) : processed_chunks[k].kind = "str"

\* [chunk.id for chunk in processed_chunks]
ChunkIdsOf(processed_chunks) ==
    [k \in 1..Len(processed_chunks) |-> processed_chunks[k].id]

\* create_checkpoint(checkpoint_id, processed_urls, processed_chunks,
\* current_position): the directory after the call.  The Checkpoint is built
\* first (timestamp = datetime.now(), the ids of the chunks), then the file
\* "<checkpoint_id>.json" is opened with 'w' and written, replacing one of
\* the same name; json.dump and Checkpoint.from_dict give back the same
\* fields, isoformat and fromisoformat being inverse on datetime.now()
create_checkpoint(dir, now, checkpoint_id, processed_urls, processed_chunks, current_position) ==
    IF RaisesOnIds(processed_chunks)
    THEN dir
    ELSE [dir EXCEPT ![checkpoint_id \o << ".json" >>] =
            [checkpoint_id |-> checkpoint_id, timestamp |-> now,
             processed_urls |-> processed_urls,
             processed_chunks |-> ChunkIdsOf(processed_chunks),
             current_position |-> current_position]]

\* the arguments a creator hands to create_checkpoint
CreatorUrls(creator, processed_urls) ==
    IF creator \in {"create_embedding_checkpoint", "create_storage_checkpoint"}
    THEN << >>
    ELSE processed_urls

CreatorChunks(creator, processed_chunks) ==
    IF creator = "create_url_checkpoint" THEN << >> ELSE processed_chunks

CreatorPosition(creator, index) ==
    CASE creator = "create_url_checkpoint" -> [type |-> "url_processing", index |-> index]
      [] creator = "create_chunk_checkpoint" -> [type |-> "chunk_processing", index |-> index]
      [] creator = "create_embedding_checkpoint" ->
            [type |-> "embedding_processing", index |-> index]
      [] creator = "create_storage_checkpoint" ->
            [type |-> "storage_processing", index |-> index]
      [] OTHER -> [type |-> "position", index |-> index]

\* one of the creators is called; datetime.now() may read the same value as
\* at the previous creation
CreateCheckpoint ==
    /\ ckpt.created < MaxCheckpoints
    /\ \E creator \in Creators, id \in CheckpointIds, elapsed \in {0, 1},
          processed_urls \in UrlLists :
          \E processed_chunks \in
                ChunkLists(IF creator = "create_checkpoint" THEN "chunk" ELSE "str") :
             ckpt' = [ckpt EXCEPT
                         !.now = @ + elapsed,
                         !.created = @ + 1,
                         !.dir = create_checkpoint(
                                    @, ckpt.now + elapsed, id,
                                    CreatorUrls(creator, processed_urls),
                                    CreatorChunks(creator, processed_chunks),
                                    CreatorPosition(creator, 1)),
                         !.asked = FALSE,
                         !.listing = << >>,
                         !.latest = NoCheckpointFile,
                         !.called = creator,
                         !.args = [checkpoint_id |-> id, processed_urls |-> processed_urls,
                                   processed_chunks |-> processed_chunks, index |-> 1],
                         !.raised = RaisesOnIds(CreatorChunks(creator, processed_chunks)),
                         !.keep_last_n = 0]
    /\ CheckpointFrame

\* delete_checkpoint(checkpoint_id): the directory after the call
delete_checkpoint(dir, checkpoint_id) ==
    IF checkpoint_id \o << ".json" >> \in Existing(dir)
    THEN [dir EXCEPT ![checkpoint_id \o << ".json" >>] = NoCheckpointFile]
    ELSE dir

\* delete_checkpoint(checkpoint_id)
DeleteCheckpoint ==
    /\ \E id \in CheckpointIds :
          /\ id \o << ".json" >> \in Existing(ckpt.dir)
          /\ ckpt' = [ckpt EXCEPT !.dir = delete_checkpoint(@, id),
                                  !.asked = FALSE,
                                  !.listing = << >>,
                                  !.latest = NoCheckpointFile,
                                  !.called = "delete_checkpoint",
                                  !.args = NoArguments,
                                  !.raised = FALSE,
                                  !.keep_last_n = 0]
    /\ CheckpointFrame

\* get_latest_checkpoint()
GetLatestCheckpoint ==
    /\ \E files \in Listings(ckpt.dir) :
          ckpt' = [ckpt EXCEPT !.asked = TRUE,
                               !.listing = files,
                               !.latest = get_latest_checkpoint(ckpt.dir, files),
                               !.called = "get_latest_checkpoint",
                               !.args = NoArguments,
                               !.raised = FALSE,
                               !.keep_last_n = 0]
    /\ CheckpointFrame

\* the checkpoints that load among ids[k..], in the order of ids
RECURSIVE load_all(_, _, _)
load_all(dir, ids, k) ==
    IF k > Len(ids) THEN << >>
    ELSE (IF load_checkpoint(dir, ids[k]) # NoCheckpointFile
          THEN << load_checkpoint(dir, ids[k]) >>
          ELSE << >>) \o load_all(dir, ids, k + 1)

\* list.sort(key=lambda x: x.timestamp): stable, oldest first
RECURSIVE sort_by_timestamp(_)
sort_by_timestamp(cps) ==
    IF cps = << >> THEN << >>
    ELSE LET sorted == sort_by_timestamp(SubSeq(cps, 1, Len(cps) - 1))
             x == cps[Len(cps)]
             before == SelectSeq(sorted, LAMBDA c : c.timestamp <= x.timestamp)
             after == SelectSeq(sorted, LAMBDA c : c.timestamp > x.timestamp)
         IN  before \o << x >> \o after

\* checkpoint_objects[:-keep_last_n] for keep_last_n >= 0: the slice [:-0] is
\* the slice [:0], which is empty
slice_to_minus(cps, keep_last_n) ==
    IF keep_last_n = 0 THEN << >> ELSE SubSeq(cps, 1, Len(cps) - keep_last_n)

\* delete_checkpoint(cp.checkpoint_id) for cp in checkpoints_to_delete[k..]
RECURSIVE delete_all(_, _, _)
delete_all(dir, cps, k) ==
    IF k > Len(cps) THEN dir
    ELSE delete_all(delete_checkpoint(dir, cps[k].checkpoint_id), cps, k + 1)

\* cleanup_old_checkpoints(keep_last_n) when os.listdir answers files: the
\* directory after the call
cleanup_old_checkpoints(dir, files, keep_last_n) ==
    LET checkpoint_objects == sort_by_timestamp(load_all(dir, list_checkpoints(files), 1))
    IN  IF Len(checkpoint_objects) <= keep_last_n
        THEN dir
        ELSE delete_all(dir, slice_to_minus(checkpoint_objects, keep_last_n), 1)

\* the values of keep_last_n
KeepCounts == 0..2

\* cleanup_old_checkpoints(keep_last_n)
CleanupOldCheckpoints ==
    /\ \E files \in Listings(ckpt.dir), n \in KeepCounts :
          ckpt' = [ckpt EXCEPT !.dir = cleanup_old_checkpoints(@, files, n),
                               !.asked = FALSE,
                               !.listing = << >>,
                               !.latest = NoCheckpointFile,
                               !.called = "cleanup_old_checkpoints",
                               !.args = NoArguments,
                               !.raised = FALSE,
                               !.keep_last_n = n]
    /\ CheckpointFrame

CheckpointNext ==
    \/ CreateCheckpoint
    \/ DeleteCheckpoint
    \/ GetLatestCheckpoint
    \/ CleanupOldCheckpoints

CheckpointSpec == CheckpointInit /\ [][CheckpointNext]_vars

(* ======================== the embedding service ======================= *)
\* The provider answers one vector per text of a request, in the order of the
\* texts, or the request raises.  A vector is named by the request it answers
\* and its place in the answer, so that vectors of different places differ.

\* batch_size of CohereService.generate_embeddings
DefaultBatchSize == 96

\* response.embeddings of the request number batch_no over the texts batch
provider_embed(batch, batch_no) ==
    [k \in 1..Len(batch) |-> [text |-> batch[k], request |-> batch_no, place |-> k]]

\* the loop of generate_embeddings over the batches from text `from`
\* (0-based) on
RECURSIVE embed_batches(_, _, _)
embed_batches(texts, batch_size, from) ==
    IF from >= Len(texts) THEN << >>
    ELSE provider_embed(SubSeq(texts, from + 1, Min(from + batch_size, Len(texts))),
                        (from \div batch_size) + 1)
         \o embed_batches(texts, batch_size, from + batch_size)

\* CohereService.generate_embeddings(texts, batch_size) when no request raises
generate_embeddings(texts, batch_size) ==
    embed_batches(texts, batch_size, 0)

\* no embedding: None
NoVector == [text |-> << >>, request |-> 0, place |-> 0]

\* generate_embeddings_for_chunks that hands out the vectors from the end
generate_embeddings_for_chunks_reversed(chunks) ==
    LET embeddings == generate_embeddings([k \in 1..Len(chunks) |-> chunks[k].content],
                                          DefaultBatchSize)
    IN  [k \in 1..Len(chunks) |->
            [chunks[k] EXCEPT !.embedding = embeddings[Len(chunks) + 1 - k]]]

\* generate_embeddings_for_chunks(chunks) when no request raises
generate_embeddings_for_chunks(chunks) ==
    LET texts == [k \in 1..Len(chunks) |-> chunks[k].content]
        embeddings == generate_embeddings(texts, DefaultBatchSize)
    IN  [k \in 1..Len(chunks) |->
            [id |-> chunks[k].id, content |-> chunks[k].content,
             source_url |-> chunks[k].source_url,
             document_hierarchy |-> chunks[k].document_hierarchy,
             metadata |-> chunks[k].metadata,
             embedding |-> IF k <= Len(embeddings) THEN embeddings[k] ELSE NoVector]]

\* the chunks handed to the service
ChunksToEmbed ==
    [id : ChunkIds, content : Contents, source_url : { << "http://b" >> },
     document_hierarchy : {"Guide > Intro"}, metadata : {"meta1", "meta2"},
     embedding : {NoVector}]

ListsToEmbed == UNION { [1..n -> ChunksToEmbed] : n \in 0..MaxBatch }

\* the batch sizes generate_embeddings is called with directly
BatchSizes == {1, 2, DefaultBatchSize}

EmbedInit ==
    /\ W \in WorkLists
    /\ site \in [Range(W) -> {"up"}]
    /\ file = AbsentFile
    /\ store = {}
    /\ mem = NoState
    /\ pc = "idle"
    /\ op = "none"
    /\ urls = << >>
    /\ i = 0
    /\ retry_count = 0
    /\ nchunks = 0
    /\ after_save = "none"
    /\ hash_randomized = TRUE
    /\ result = "none"
    /\ runs = 0
    /\ retry = NoRetry
    /\ slept = {}
    /\ limiter = RateLimiter(100, 1)
    /\ permits = << >>
    /\ threads = [t \in Workers |-> IdleThread]
    /\ locks = NoLocks
    /\ crawl = CrawlRateLimiter(100)
    /\ proc = NoProcess
    /\ dedup = NoDedup
    /\ ckpt = NoCheckpoints
    /\ \E l \in ListsToEmbed : embed = [NoEmbedding EXCEPT !.chunks = l]
    /\ attempts = 0
    /\ chunker = NoChunking

EmbedFrame ==
    UNCHANGED << W, site, file, store, mem, pc, op, urls, i, retry_count, nchunks,
                 after_save, hash_randomized, result, runs, retry, slept, limiter,
                 permits, threads, locks, crawl, proc, dedup, ckpt, attempts, chunker >>

\* updated_chunks = generate_embeddings_for_chunks(chunks); a request to the
\* provider may raise, and the exception is raised again
GenerateEmbeddingsForChunks ==
    /\ \E raises \in BOOLEAN :
          IF raises /\ embed.chunks # << >>
          THEN embed' = [embed EXCEPT !.called = "generate_embeddings_for_chunks",
                                      !.batch_size = DefaultBatchSize,
                                      !.raised = TRUE,
                                      !.updated_chunks = << >>,
                                      !.all_embeddings = << >>]
          ELSE embed' = [embed EXCEPT
                            !.called = "generate_embeddings_for_chunks",
                            !.batch_size = DefaultBatchSize,
                            !.raised = FALSE,
                            !.updated_chunks = generate_embeddings_for_chunks(embed.chunks),
                            !.all_embeddings = << >>]
    /\ EmbedFrame

\* all_embeddings = generate_embeddings(texts, batch_size) over the contents
\* of the chunks
GenerateEmbeddings ==
    /\ \E batch_size \in BatchSizes :
          embed' = [embed EXCEPT
                       !.called = "generate_embeddings",
                       !.batch_size = batch_size,
                       !.raised = FALSE,
                       !.updated_chunks = << >>,
                       !.all_embeddings =
                           generate_embeddings(
                              [k \in 1..Len(embed.chunks) |-> embed.chunks[k].content],
                              batch_size)]
    /\ EmbedFrame

EmbedNext ==
    \/ GenerateEmbeddingsForChunks
    \/ GenerateEmbeddings

EmbedSpec == EmbedInit /\ [][EmbedNext]_vars

(* ======================= properties of the run ======================== *)
persisted == load_state(file)

InLoopBody ==
    \/ pc \in {"attempt", "record"}
    \/ pc \in {"save_open", "save_dump"} /\ after_save = "next"

HasPoints(u) == \E r \in store : r.source_url = u

\* C1: a resume runs the per-unit workflow only on units that are not yet in
\* processed_urls, and a completed run ends with processed_urls = W minus the
\* failed units.
ResumeIsIdempotent ==
    /\ (op = "resume" /\ pc = "attempt") => urls[i] \notin Range(mem.processed_urls)
    /\ (pc = "done" /\ result = "state" /\ mem.status = "completed")
          => Range(mem.processed_urls) = Range(W) \ Range(mem.failed_urls)

\* C2: the list a resume goes on to process is initial_urls with the units of
\* processed_urls removed, in the original order.
RemainingIsInitialMinusProcessed ==
    (op = "resume" /\ pc = "loop" /\ i = 1)
       => LET todo(u) == u \notin Range(mem.processed_urls)
          IN  urls = SelectSeq(mem.checkpoint_data.initial_urls, todo)

\* C3: processed_urls and failed_urls are disjoint, in memory and in the file.
ProcessedFailedDisjoint ==
    /\ Range(mem.processed_urls) \cap Range(mem.failed_urls) = {}
    /\ Range(persisted.processed_urls) \cap Range(persisted.failed_urls) = {}

\* C4: while a unit is in flight, every unit of this operation that finished
\* before it is recorded in the persisted processed_urls or failed_urls.
AtMostOneUnitLost ==
    InLoopBody =>
       \A j \in 1..(i - 1) :
          urls[j] \in Range(persisted.processed_urls) \cup Range(persisted.failed_urls)

\* C5: across any step of save_state a reader loads either the previously
\* saved state or the state being saved.
SaveStateIsAtomic ==
    [][ (pc = "save_open" \/ pc = "save_dump")
          => load_state(file') \in {load_state(file), mem} ]_vars

\* C6: when the run has completed, a unit whose fetch fails on every attempt is
\* in failed_urls and not in processed_urls.
FailingUnitIsRecordedFailed ==
    (pc = "done" /\ result = "state" /\ mem.status = "completed")
       => \A u \in Range(W) :
             site[u] = "down"
                => u \in Range(mem.failed_urls) /\ u \notin Range(mem.processed_urls)

\* C7: every unit in processed_urls (in memory or persisted) has its vectors in
\* the vector store (every page of the model has content, NChunks >= 1).
ProcessedImpliesStored ==
    \A u \in Range(mem.processed_urls) \cup Range(persisted.processed_urls) :
       HasPoints(u)

\* C8: the vector store never holds two points for the same chunk of a unit.
NoDuplicateRecords ==
    \A r1, r2 \in store :
       (r1.source_url = r2.source_url /\ r1.chunk_index = r2.chunk_index) => r1 = r2

\* C9: a resume over a persisted state with status completed runs no unit
\* workflow, writes nothing to the state file or the vector store and returns.
CompletedResumeIsNoop ==
    [][ (persisted.status = "completed" /\ (op = "resume" \/ op' = "resume"))
          => (file' = file /\ store' = store
              /\ pc' \in {"resume_loaded", "done", "idle"}) ]_vars

CompletedResumeReturned ==
    /\ op = "resume"
    /\ pc = "done"
    /\ result = "already_completed"
    /\ persisted.status = "completed"
    /\ Len(persisted.processed_urls) > 0

\* C10: the status of a PipelineState changes only along running -> completed,
\* running -> failed and failed -> running, the last one only in
\* resume_pipeline; completed never changes.
StatusTransitionsAllowed ==
    [][ (mem.status # "none" /\ mem'.status # "none" /\ mem'.status # mem.status)
          => ((mem.status = "running" /\ mem'.status \in {"completed", "failed"})
              \/ (mem.status = "failed" /\ mem'.status = "running" /\ op = "resume")) ]_vars

\* C11: a PipelineState whose status is completed or failed accepts no further
\* work: no StateService call changes its processed_urls, failed_urls,
\* total_chunks or checkpoint_data.
TerminalStateAcceptsNoWork ==
    [][ (mem.status = "completed" \/ mem.status = "failed")
          => (/\ mem'.processed_urls = mem.processed_urls
              /\ mem'.failed_urls = mem.failed_urls
              /\ mem'.total_chunks = mem.total_chunks
              /\ mem'.checkpoint_data = mem.checkpoint_data) ]_vars

IsPrefix(a, b) == Len(a) <= Len(b) /\ SubSeq(b, 1, Len(a)) = a

Extends(old, new) ==
    /\ IsPrefix(old.processed_urls, new.processed_urls)
    /\ IsPrefix(old.failed_urls, new.failed_urls)

\* C12: processed_urls and failed_urls of one run only grow at the tail: each
\* in-memory snapshot extends the one before it, each persisted snapshot
\* extends the persisted one before it, and the object of the live process
\* extends the snapshot in the file.
ListsAreAppendOnly ==
    [][ /\ (mem.status # "none" /\ mem'.status # "none"
              /\ mem'.session_id = mem.session_id) => Extends(mem, mem')
        /\ (persisted.status # "none" /\ load_state(file').status # "none"
              /\ load_state(file').session_id = persisted.session_id)
                 => Extends(persisted, load_state(file'))
        /\ (mem'.status # "none" /\ load_state(file').status # "none"
              /\ load_state(file').session_id = mem'.session_id)
                 => Extends(load_state(file'), mem') ]_vars

ListsGrewAcrossResume ==
    /\ op = "resume"
    /\ pc = "done"
    /\ result = "state"
    /\ mem = persisted
    /\ Len(persisted.processed_urls) + Len(persisted.failed_urls) >= 2

\* chunks the pipeline counts for a unit: those of its page, none when the
\* fetch fails
ChunksOf(u) == IF site[u] = "up" THEN NChunks(u) ELSE 0

RECURSIVE SumChunks(_)
SumChunks(s) == IF s = << >> THEN 0 ELSE ChunksOf(Head(s)) + SumChunks(Tail(s))

\* C13: total_chunks is the sum of the chunk counts of the units in
\* processed_urls, each counted once, in memory and in the file.
TotalChunksMatchesProcessed ==
    /\ mem.status # "none" => mem.total_chunks = SumChunks(mem.processed_urls)
    /\ persisted.status # "none"
          => persisted.total_chunks = SumChunks(persisted.processed_urls)

\* C14: a state whose status is completed (or failed), in memory or persisted,
\* has its end_time set.
FinalStatusHasEndTime ==
    /\ mem.status \in {"completed", "failed"} => mem.end_time # None
    /\ persisted.status \in {"completed", "failed"} => persisted.end_time # None

CompletedPersistedWithEndTime ==
    /\ pc = "done"
    /\ result = "state"
    /\ persisted.status = "completed"
    /\ persisted.end_time # None
    /\ mem = persisted

\* C15: an end_time that is set is never changed by a later update_state.
EndTimeNeverOverwritten ==
    [][ (mem.status # "none" /\ mem'.status # "none" /\ mem.end_time # None)
          => mem'.end_time = mem.end_time ]_vars

FinalUpdateOnStampedState ==
    /\ op = "recover"
    /\ pc = "save_open"
    /\ mem.status = "failed"
    /\ mem.end_time # None
    /\ mem.end_time < runs

RetryWrappers == {"retry_on_failure", "retry_with_backoff"}

\* C16: a retry wrapper called with a maximum of n attempts invokes the
\* operation at most n times, exactly n times before it raises the final
\* error, and exactly k + 1 times when the operation returns after k failures.
RetryInvokesAtMostMaxAttempts ==
    retry.engine \in RetryWrappers =>
       /\ retry.calls <= retry.max_retries
       /\ retry.pc = "raised" => retry.calls = retry.max_retries
       /\ retry.pc = "returned" => retry.calls = retry.fails + 1

\* C17: an operation that failed with an error that should not be retried was
\* invoked exactly once and its failure has escalated.
NonRetryableIsNotRetried ==
    (retry.fails >= 1 /\ ~should_retry_error(retry.error))
       => (retry.calls = 1 /\ retry.pc \in {"raised", "gave_up"})

\* C18: at the same attempt number an engine sleeps strictly longer after a
\* rate_limit error than after a network or server error.
RateLimitBackoffIsLonger ==
    \A a, b \in slept :
       (/\ a.engine = b.engine
        /\ a.attempt = b.attempt
        /\ a.kind = "rate_limit"
        /\ b.kind \in {"network", "server"}) => a.delay > b.delay

\* permits of host h (of any host when h = "*") returned in the window of
\* length w that ends with the k-th permit
PermitsInWindow(h, k, w) ==
    { j \in 1..Len(permits) :
         /\ h \in {"*", permits[j].host}
         /\ permits[j].at > permits[k].at - w
         /\ permits[j].at <= permits[k].at }

\* C19: in any interval of length 1/rate at most burst permits are granted for
\* one host, and in any interval of length 1/global_rate at most global_burst
\* permits over all hosts.
PermitsRespectBothWindows ==
    \A k \in 1..Len(permits) :
       LET dom == limiter.domains[permits[k].host]
       IN  /\ Cardinality(PermitsInWindow(permits[k].host, k, Window(dom.rate))) <= dom.burst
           /\ Cardinality(PermitsInWindow("*", k, Window(limiter.global.rate)))
                 <= limiter.global.burst

\* the limiter has rate 2 per second and burst 2, and every call so far was a
\* blocking acquire for host H issued as soon as the one before returned
BackToBackOnH ==
    /\ limiter.domains["H"].rate = 200 /\ limiter.domains["H"].burst = 2
    /\ limiter.global.rate = 200 /\ limiter.global.burst = 2
    /\ limiter.last # "denied"
    /\ \A k \in 1..Len(permits) :
          /\ permits[k].host = "H"
          /\ permits[k].method = "acquire"
          /\ permits[k].called_at = (IF k = 1 THEN 0 ELSE permits[k - 1].at)

\* C20: of five back-to-back acquire(H) calls at rate 2 per second and burst 2
\* the 1st and 2nd return at once, and the 3rd, 4th and 5th return 1/rate
\* (plus the 0.01 s buffer) after the oldest timestamp the window held when
\* the call was made.
BurstThenOnePerWindow ==
    BackToBackOnH =>
       \A k \in 1..Len(permits) :
          IF k <= 2
          THEN permits[k].at = permits[k].called_at
          ELSE /\ permits[k].oldest # None
               /\ permits[k].at - permits[k].oldest \in {Window(200), Window(200) + 1}

FiveBackToBackAcquired ==
    /\ BackToBackOnH
    /\ Len(permits) = 5
    /\ permits[5].at > permits[5].called_at

\* timestamps of the queue ts recorded in the window of length w that ends
\* with its k-th timestamp
StampsInWindow(ts, k, w) == { j \in 1..Len(ts) : ts[j] > ts[k] - w /\ ts[j] <= ts[k] }

\* no window queue holds more than burst timestamps within one interval of
\* length 1/rate: what calls made one after the other guarantee
QueueWithinBurst(q) ==
    \A k \in 1..Len(q.timestamps) :
       Cardinality(StampsInWindow(q.timestamps, k, Window(q.rate))) <= q.burst

QueuesWithinBurst ==
    /\ \A h \in Hosts : QueueWithinBurst(limiter.domains[h])
    /\ QueueWithinBurst(limiter.global)

\* C21: under every interleaving of acquire / wait calls of several workers a
\* thread touches a window's timestamp queue only while it holds that window's
\* lock, and no window records more permits per interval of length 1/rate than
\* its burst.
ConcurrentAcquireIsSafe ==
    /\ \A t \in Workers :
          /\ threads[t].pc = "acq_append_dom" => locks[threads[t].host] = t
          /\ threads[t].pc = "acq_append_glob" => locks["global"] = t
    /\ QueuesWithinBurst

\* ts with its expired timestamps dropped, as a call at time now sees it
Live(w, now) == Prune(w.timestamps, now - Window(w.rate))

\* new holds no timestamp that old did not hold (some may have expired)
NothingRecorded(old, new) ==
    /\ Len(new) <= Len(old)
    /\ new = SubSeq(old, Len(old) - Len(new) + 1, Len(old))

\* C22: a non-blocking acquire returns at the time it was called; it is denied
\* exactly when the host's window or the global window is at capacity; denied,
\* it records no timestamp in any window; granted, it records exactly one
\* timestamp (the time of the call) in the host's window and in the global one.
NonBlockingAcquireContract ==
    [][ (~limiter'.blocking /\ limiter'.pauses = limiter.pauses)
          => LET h == limiter'.host
                 d == Live(limiter.domains[h], limiter.now)
                 g == Live(limiter.global, limiter.now)
                 at_capacity == \/ Len(d) >= limiter.domains[h].burst
                                \/ Len(g) >= limiter.global.burst
             IN  /\ limiter'.now = limiter.now
                 /\ (limiter'.last = "denied") <=> at_capacity
                 /\ \A x \in Hosts \ {h} : limiter'.domains[x] = limiter.domains[x]
                 /\ IF limiter'.last = "denied"
                    THEN /\ NothingRecorded(limiter.domains[h].timestamps,
                                            limiter'.domains[h].timestamps)
                         /\ NothingRecorded(limiter.global.timestamps,
                                            limiter'.global.timestamps)
                         /\ permits' = permits
                    ELSE /\ limiter'.domains[h].timestamps = Append(d, limiter.now)
                         /\ limiter'.global.timestamps = Append(g, limiter.now)
                         /\ Len(permits') = Len(permits) + 1 ]_vars

\* a non-blocking acquire was denied by the global window while the host's own
\* window had room
NonBlockingDeniedByGlobalWindow ==
    /\ limiter.last = "denied"
    /\ ~limiter.blocking
    /\ Len(Live(limiter.domains[limiter.host], limiter.now))
          < limiter.domains[limiter.host].burst
    /\ Len(Live(limiter.global, limiter.now)) >= limiter.global.burst

\* C23: the delay of a host is its baseline delay while its latest recorded
\* request succeeded (or none failed); it is never below the baseline; it does
\* not decrease when one more consecutive failure is recorded; and it is the
\* baseline again once a success is recorded.
BackoffDelayContract ==
    [][ \A h \in Hosts :
           /\ crawl'.failed_requests[h] = 0
                 => should_delay_request(crawl', h) = baseline_delay(crawl', h)
           /\ should_delay_request(crawl', h) >= baseline_delay(crawl', h)
           /\ (/\ crawl'.failed_requests[h] > crawl.failed_requests[h]
               /\ baseline_delay(crawl', h) = baseline_delay(crawl, h))
                 => should_delay_request(crawl', h) >= should_delay_request(crawl, h) ]_vars

\* the state has checkpoint data whose initial work list is not empty and not
\* entirely covered by processed_urls
HasUncoveredWork(st) ==
    /\ st.checkpoint_data # NoCheckpoint
    /\ st.checkpoint_data.initial_urls # << >>
    /\ ~(Range(st.checkpoint_data.initial_urls) \subseteq Range(st.processed_urls))

\* C24: validate_resume_state accepts exactly the states with uncovered work,
\* and a resume that loaded a state it rejects returns at once: it starts no
\* unit workflow and leaves the state file and the vector store as they are.
ResumeRefusesInvalidState ==
    [][ /\ mem # NoState => (validate_resume_state(mem) <=> HasUncoveredWork(mem))
        /\ (pc = "resume_loaded" /\ ~validate_resume_state(mem))
              => (pc' \in {"done", "idle"} /\ file' = file /\ store' = store) ]_vars

\* the state file holds a state as create_initial_state(., W) makes it
PersistedInitialState ==
    LET st == load_state(file)
    IN  /\ st # NoState
        /\ st.status = "running"
        /\ st.processed_urls = << >>
        /\ st.failed_urls = << >>
        /\ st.checkpoint_data # NoCheckpoint
        /\ st.checkpoint_data.initial_urls = W

\* C25: while a fresh run is crawling, before it has stored anything, the
\* state file holds an initial state: status running, empty processed and
\* failed lists and the full work list, for a later resume to continue from.
FreshRunPersistsInitialState ==
    proc.pc \in {"crawl", "store"} => PersistedInitialState

\* the state file holds a failed state with its error message
PersistedFailure ==
    LET st == load_state(file)
    IN  /\ st # NoState
        /\ st.status = "failed"
        /\ st.error_message # ""

\* C26: a process that exits after a run-level failure (a save of the state
\* failed, or the vector database was unreachable when the collection was to
\* be created) exits with an error and leaves a failed state with an error
\* message in the state file.
RunLevelFailureIsPersisted ==
    (/\ proc.pc = "exited"
     /\ (proc.save_failed \/ proc.failed_stage = "collection"))
       => (proc.exit_code = 1 /\ PersistedFailure)

FirstOccurrences(b) ==
    { k \in 1..Len(b) : \A j \in 1..(k - 1) : content_hash(b[j]) # content_hash(b[k]) }

\* the chunks of b at the positions of I, from position k on, in input order
RECURSIVE AtPositions(_, _, _)
AtPositions(b, I, k) ==
    IF k > Len(b) THEN << >>
    ELSE (IF k \in I THEN << b[k] >> ELSE << >>) \o AtPositions(b, I, k + 1)

\* what the two calls returned partitions the batch
PartitionsBatch(d) ==
    LET b == d.batch
        firsts == FirstOccurrences(b)
        others == (1..Len(b)) \ firsts
        rest == AtPositions(b, others, 1)
    IN  /\ d.removed => d.unique = AtPositions(b, firsts, 1)
        /\ d.detected =>
              /\ Len(d.duplicates) = Len(rest)
              /\ \A k \in 1..Len(rest) :
                    /\ d.duplicates[k].chunk_id = rest[k].id
                    /\ d.duplicates[k].source_url = rest[k].source_url
                    /\ d.duplicates[k].content_hash = content_hash(rest[k])
        /\ (d.removed /\ d.detected) =>
              /\ Len(d.unique) + Len(d.duplicates) = Len(b)
              /\ Len(d.unique) = Len(b) - Cardinality(others)

\* C28: remove_duplicates_by_content returns the first chunk of each hash in
\* input order, detect_duplicates_by_content returns every other chunk under
\* its own id, the two account for every chunk once (batch size minus the
\* number of duplicates are unique), and a repeated call returns the same.
DedupPartitionsBatch ==
    [][ /\ PartitionsBatch(dedup')
        /\ (dedup.removed /\ dedup'.removed) => dedup'.unique = dedup.unique
        /\ (dedup.detected /\ dedup'.detected) => dedup'.duplicates = dedup.duplicates ]_vars

\* C28 witness: both calls were made on a batch of three chunks whose third
\* chunk repeats the first under another id, with a different chunk between
DuplicateReportedUnderOwnId ==
    /\ dedup.removed
    /\ dedup.detected
    /\ Len(dedup.batch) = 3
    /\ Len(dedup.unique) = 2
    /\ Len(dedup.duplicates) = 1
    /\ dedup.duplicates[1].chunk_id = dedup.batch[3].id
    /\ dedup.batch[3].id # dedup.batch[1].id

\* C29: two chunks of a batch have the same duplicate key exactly when their
\* content and their source_url are both equal, whatever their ids, and the
\* same holds for their get_content_fingerprint values.
FingerprintIdentifiesContentAndUrl ==
    \A j, k \in 1..Len(dedup.batch) :
       LET a == dedup.batch[j]
           b == dedup.batch[k]
           same == a.content = b.content /\ a.source_url = b.source_url
       IN  /\ (content_hash(a) = content_hash(b)) <=> same
           /\ dedup.fingerprinted =>
                 ((dedup.fingerprints[j] = dedup.fingerprints[k]) <=> same)

\* the checkpoints that are persisted in the directory
Persisted(dir) == { dir[f] : f \in Existing(dir) }

\* C30: the answer of get_latest_checkpoint is none exactly when no
\* checkpoint is persisted; otherwise it is a persisted checkpoint whose
\* timestamp no persisted checkpoint exceeds, and it is the same for every
\* order in which the directory can be listed.
LatestCheckpointIsGreatest ==
    ckpt.asked =>
       /\ (ckpt.latest = NoCheckpointFile) <=> (Persisted(ckpt.dir) = {})
       /\ ckpt.latest # NoCheckpointFile =>
             /\ ckpt.latest \in Persisted(ckpt.dir)
             /\ \A c \in Persisted(ckpt.dir) : c.timestamp <= ckpt.latest.timestamp
       /\ \A files \in Listings(ckpt.dir) :
             get_latest_checkpoint(ckpt.dir, files) = ckpt.latest

\* C31: a step of cleanup_old_checkpoints(N) leaves min(N, count) of the
\* count checkpoints persisted before it, deletes the others and keeps none
\* that is older than one it deleted.
CleanupKeepsNewest ==
    [][ ckpt'.called = "cleanup_old_checkpoints" =>
          LET before == Existing(ckpt.dir)
              after == Existing(ckpt'.dir)
              n == ckpt'.keep_last_n
          IN  /\ after \subseteq before
              /\ \A f \in after : ckpt'.dir[f] = ckpt.dir[f]
              /\ Cardinality(after) = Min(n, Cardinality(before))
              /\ \A f \in after, g \in before \ after :
                    ckpt.dir[g].timestamp <= ckpt.dir[f].timestamp ]_vars

\* C32: a checkpoint file that exists keeps its content in every step, or
\* disappears in a step of delete_checkpoint or cleanup_old_checkpoints.
CheckpointsAreWriteOnce ==
    [][ \A f \in Existing(ckpt.dir) :
           \/ ckpt'.dir[f] = ckpt.dir[f]
           \/ /\ ckpt'.dir[f] = NoCheckpointFile
              /\ ckpt'.called \in {"delete_checkpoint", "cleanup_old_checkpoints"} ]_vars

\* C36: a step of any creator does not raise, and load_checkpoint of the id
\* it was given then answers a checkpoint with that id, the processed units,
\* the chunk ids and the position the creator was given.
CreateLoadRoundTrip ==
    [][ ckpt'.called \in Creators =>
          LET a == ckpt'.args
              cp == load_checkpoint(ckpt'.dir, a.checkpoint_id)
          IN  /\ ~ckpt'.raised
              /\ cp.checkpoint_id = a.checkpoint_id
              /\ cp.processed_urls = CreatorUrls(ckpt'.called, a.processed_urls)
              /\ cp.processed_chunks =
                    [k \in 1..Len(CreatorChunks(ckpt'.called, a.processed_chunks)) |->
                        a.processed_chunks[k].id]
              /\ cp.current_position = CreatorPosition(ckpt'.called, a.index) ]_vars

\* C33: what generate_embeddings_for_chunks returns has one chunk per input
\* chunk, in input order, with id, content, source_url, hierarchy and
\* metadata unchanged and with the vector the provider answered at the same
\* place for that chunk's content; generate_embeddings answers one vector per
\* text, in order, whatever the batch size.
OneEmbeddedChunkPerInput ==
    /\ (embed.called = "generate_embeddings_for_chunks" /\ ~embed.raised) =>
          /\ Len(embed.updated_chunks) = Len(embed.chunks)
          /\ \A k \in 1..Len(embed.chunks) :
                LET inp == embed.chunks[k]
                    out == embed.updated_chunks[k]
                IN  /\ out.id = inp.id
                    /\ out.content = inp.content
                    /\ out.source_url = inp.source_url
                    /\ out.document_hierarchy = inp.document_hierarchy
                    /\ out.metadata = inp.metadata
                    /\ out.embedding = [text |-> inp.content, request |-> 1, place |-> k]
    /\ embed.called = "generate_embeddings" =>
          /\ Len(embed.all_embeddings) = Len(embed.chunks)
          /\ \A k \in 1..Len(embed.chunks) :
                /\ embed.all_embeddings[k].text = embed.chunks[k].content
                /\ embed.all_embeddings[k].request = ((k - 1) \div embed.batch_size) + 1
                /\ embed.all_embeddings[k].place = ((k - 1) % embed.batch_size) + 1

\* C33 witness: three chunks, two of them with the same content under
\* different ids, came back with their three vectors
ThreeChunksEmbedded ==
    /\ embed.called = "generate_embeddings_for_chunks"
    /\ ~embed.raised
    /\ Len(embed.updated_chunks) = 3
    /\ embed.chunks[1].content = embed.chunks[3].content
    /\ embed.chunks[1].id # embed.chunks[3].id
    /\ embed.chunks[1].content # embed.chunks[2].content
    /\ embed.updated_chunks[3].embedding.place = 3

(* ===================== position of the resume loop ===================== *)
\* 0-based index of unit u in the list s
IndexOf(s, u) == (CHOOSE k \in 1..Len(s) : s[k] = u) - 1

\* the units a state records as processed or failed
Recorded(st) == Range(st.processed_urls) \cup Range(st.failed_urls)

\* C34: while the resume loop attempts a unit, current_url_index is that unit's
\* index in the initial work list; and in the persisted state every unit before
\* the index is recorded as processed or failed and no unit after the index is
\* recorded as processed.
ResumeIndexIsUnitIndex ==
    /\ (pc = "attempt" /\ op = "resume")
          => mem.checkpoint_data.current_url_index
                = IndexOf(mem.checkpoint_data.initial_urls, urls[i])
    /\ file.kind = "ok" =>
          LET st == load_state(file)
              initial == st.checkpoint_data.initial_urls
              idx == st.checkpoint_data.current_url_index
          IN  \A k \in 1..Len(initial) :
                 /\ k <= idx => initial[k] \in Recorded(st)
                 /\ k > idx + 1 => initial[k] \notin Range(st.processed_urls)

(* ======== the resume loop with a store step that answers False ========= *)
\* ResumeService takes its vector_service from the caller.  Both loops read
\* result['success'] and have a branch for a False answer; a unit marked
\* "refuses" is one whose chunks the store step answers False for.
MaxAttempts == 4    \* attempts of one unit that are followed

RefusingInit ==
    /\ W \in WorkLists
    /\ site \in [Range(W) -> {"up", "down", "refuses"}]
    /\ file = AbsentFile
    /\ store = {}
    /\ mem = NoState
    /\ pc = "idle"
    /\ op = "none"
    /\ urls = << >>
    /\ i = 0
    /\ retry_count = 0
    /\ nchunks = 0
    /\ after_save = "none"
    /\ hash_randomized \in BOOLEAN
    /\ result = "none"
    /\ runs = 0
    /\ retry = NoRetry
    /\ slept = {}
    /\ limiter = RateLimiter(100, 1)
    /\ permits = << >>
    /\ threads = [t \in Workers |-> IdleThread]
    /\ locks = NoLocks
    /\ crawl = CrawlRateLimiter(100)
    /\ proc = NoProcess
    /\ dedup = NoDedup
    /\ ckpt = NoCheckpoints
    /\ embed = NoEmbedding
    /\ attempts = 0
    /\ chunker = NoChunking

\* process_and_store_chunks returned success = False without raising.  The
\* resume loop logs and goes round its while loop again, success still False
\* and retry_count untouched; the restart loop records the unit as failed.
AttemptStoreFails ==
    /\ pc = "attempt"
    /\ site[urls[i]] = "refuses"
    /\ attempts < MaxAttempts
    /\ attempts' = attempts + 1
    /\ IF op = "resume"
       THEN /\ pc' = "attempt"
            /\ UNCHANGED << mem, after_save >>
       ELSE /\ mem' = add_failed_url(mem, urls[i])
            /\ pc' = "save_open"
            /\ after_save' = "next"
    /\ UNCHANGED << W, site, file, store, op, urls, i, retry_count, nchunks, hash_randomized,
                    result, runs >>
    /\ UNCHANGED other_components

RefusingNext ==
    \/ Next
    \/ AttemptStoreFails

RefusingSpec == RefusingInit /\ [][RefusingNext]_vars

\* C35: the workflow of one unit is attempted at most max_retries times, whatever
\* the collaborators do (raise, answer success = False, produce no chunks).
AttemptsAreBounded == attempts <= MaxRetries

(* ===================== completion of the work list ===================== *)
\* resume_pipeline or restart_pipeline_from_scratch is returning a state whose
\* status is completed
ReturnsCompleted ==
    /\ pc = "done"
    /\ op \in {"resume", "restart"}
    /\ result \in {"state", "already_completed"}
    /\ mem.status = "completed"

\* every unit of the initial work list is recorded as processed or failed
CoversWorkList(st) == Range(st.checkpoint_data.initial_urls) \subseteq Recorded(st)

\* C37: a state returned with status completed records every unit of
\* initial_urls as processed or failed, and the state file holds status
\* completed at that moment.
CompletionCoversWorkList ==
    ReturnsCompleted => /\ CoversWorkList(mem)
                        /\ load_state(file).status = "completed"

(* ======================= end_time of a running state =================== *)
\* C38: in the state a process holds and in the state the file holds, status
\* running implies that end_time is unset.
RunningHasNoEndTime ==
    /\ mem.status = "running" => mem.end_time = None
    /\ file.kind = "ok" =>
          (load_state(file).status = "running" => load_state(file).end_time = None)

(* ============ resume of a state saved without checkpoint data ========== *)
\* PipelineState(session_id, status, start_time) leaves checkpoint_data at its
\* default; a client of StateService saved such a state with save_state
BareState ==
    [NoState EXCEPT !.session_id = 1, !.status = "running", !.start_time = 0]

\* the state file is absent or holds the state saved without checkpoint data
StoredInit ==
    /\ W \in WorkLists
    /\ site \in [Range(W) -> {"up", "down"}]
    /\ file \in {AbsentFile, WrittenFile(BareState)}
    /\ store = {}
    /\ mem = NoState
    /\ pc = "idle"
    /\ op = "none"
    /\ urls = << >>
    /\ i = 0
    /\ retry_count = 0
    /\ nchunks = 0
    /\ after_save = "none"
    /\ hash_randomized \in BOOLEAN
    /\ result = "none"
    /\ runs = 0
    /\ retry = NoRetry
    /\ slept = {}
    /\ limiter = RateLimiter(100, 1)
    /\ permits = << >>
    /\ threads = [t \in Workers |-> IdleThread]
    /\ locks = NoLocks
    /\ crawl = CrawlRateLimiter(100)
    /\ proc = NoProcess
    /\ dedup = NoDedup
    /\ ckpt = NoCheckpoints
    /\ embed = NoEmbedding
    /\ attempts = 0
    /\ chunker = NoChunking

StoredSpec == StoredInit /\ [][Next]_vars

\* the fields of a state the comparison of C39 names
Essentials(st) ==
    << st.status, st.end_time, st.processed_urls, st.failed_urls, st.total_chunks,
       st.checkpoint_data >>

\* C39: when resume_pipeline returns a state, the state file holds the same
\* status, end_time, processed_urls, failed_urls, total_chunks and
\* checkpoint_data.
ReturnedEqualsPersisted ==
    (pc = "done" /\ op = "resume" /\ result \in {"state", "already_completed"})
       => Essentials(mem) = Essentials(load_state(file))

(* ====================== TextChunker.chunk_text ========================= *)
\* A text is its length, the positions of its spaces and the positions of its
\* ". " separators (a full stop at p, a space at p + 1); every other character
\* is a letter, so of the nine separators of chunk_text only ". " can be found.
MaxIterations == 4      \* passes of the while loop that are followed

\* search_start = max(0, end - 200)
LookBack == 200

is_valid_chunk_size(size) == 100 <= size /\ size <= 10000

is_valid_chunk_overlap(overlap) == 0 <= overlap /\ overlap <= 1000

\* Config.validate: CHUNK_SIZE positive, CHUNK_OVERLAP not negative
validate(chunk_size, chunk_overlap) == chunk_size > 0 /\ chunk_overlap >= 0

\* the configurations get_config and validate_docusaurus_config let through
AcceptedConfigs ==
    { c \in [chunk_size : {50, 100, 200, 1000}, overlap : {0, 100, 1000}] :
         /\ validate(c.chunk_size, c.overlap)
         /\ is_valid_chunk_size(c.chunk_size)
         /\ is_valid_chunk_overlap(c.overlap) }

TextLengths == {0, 150, 300, 1200}
SpacePositions == {0, 99, 100, 250}
StopPositions == {98, 249}

Texts ==
    UNION { { [length |-> n, spaces |-> sp, stops |-> st] :
                 sp \in SUBSET { p \in SpacePositions : p < n },
                 st \in SUBSET { p \in StopPositions : p + 1 < n } } :
            n \in TextLengths }

\* a full stop of a ". " separator is followed by a space
WellFormed(text) == \A p \in text.stops : p + 1 \in text.spaces

\* how Python reads an index of a slice or of rfind on a string of length n
Norm(k, n) ==
    IF k < 0 THEN (IF n + k < 0 THEN 0 ELSE n + k)
    ELSE (IF k > n THEN n ELSE k)

\* text.rfind(sep, lo, hi) for a separator of the given width that occurs at
\* the given positions; -1 when it does not occur in text[lo:hi]
rfind(positions, width, n, lo, hi) ==
    LET found == { p \in positions : Norm(lo, n) <= p /\ p + width <= Norm(hi, n) }
    IN  IF found = {} THEN -1 ELSE CHOOSE p \in found : \A q \in found : q <= p

\* text[lo:hi].strip() is not empty
NonBlank(text, lo, hi) ==
    \E p \in Norm(lo, text.length)..(Norm(hi, text.length) - 1) : p \notin text.spaces

\* lines 49-71: where the chunk that starts at `start` ends
chunk_end(text, chunk_size, start) ==
    LET end == start + chunk_size
        search_start == IF end - LookBack > 0 THEN end - LookBack ELSE 0
        pos == rfind(text.stops, 2, text.length, search_start, end)
        last_space == rfind(text.spaces, 1, text.length, search_start, end)
    IN  IF end < text.length
        THEN IF pos # -1 THEN pos + 2
             ELSE IF last_space # -1 THEN last_space
             ELSE end
        ELSE end

ChunkInit ==
    /\ W \in WorkLists
    /\ site \in [Range(W) -> {"up"}]
    /\ file = AbsentFile
    /\ store = {}
    /\ mem = NoState
    /\ pc = "idle"
    /\ op = "none"
    /\ urls = << >>
    /\ i = 0
    /\ retry_count = 0
    /\ nchunks = 0
    /\ after_save = "none"
    /\ hash_randomized = TRUE
    /\ result = "none"
    /\ runs = 0
    /\ retry = NoRetry
    /\ slept = {}
    /\ limiter = RateLimiter(100, 1)
    /\ permits = << >>
    /\ threads = [t \in Workers |-> IdleThread]
    /\ locks = NoLocks
    /\ crawl = CrawlRateLimiter(100)
    /\ proc = NoProcess
    /\ dedup = NoDedup
    /\ ckpt = NoCheckpoints
    /\ embed = NoEmbedding
    /\ attempts = 0
    /\ \E text \in Texts, c \in AcceptedConfigs :
          /\ WellFormed(text)
          /\ chunker = [NoChunking EXCEPT !.pc = "idle", !.text = text,
                                          !.chunk_size = c.chunk_size,
                                          !.overlap = c.overlap]

ChunkFrame ==
    UNCHANGED << W, site, file, store, mem, pc, op, urls, i, retry_count, nchunks,
                 after_save, hash_randomized, result, runs, retry, slept, limiter,
                 permits, threads, locks, crawl, proc, dedup, ckpt, embed, attempts >>

\* chunk_text(text, chunk_size, overlap, url, hierarchy, metadata) up to the
\* head of its loop: an empty or blank text returns []
ChunkText ==
    /\ chunker.pc = "idle"
    /\ chunker' = IF NonBlank(chunker.text, 0, chunker.text.length)
                  THEN [chunker EXCEPT !.pc = "loop", !.start = 0]
                  ELSE [chunker EXCEPT !.pc = "returned"]
    /\ ChunkFrame

\* one pass of `while start < text_length`: the chunk is kept when it is not
\* blank (its id, url and hierarchy are set and it is no longer than
\* chunk_size, so validate() passes), start moves, and the loop is left by
\* break when the rest is shorter than the overlap
ChunkIteration ==
    /\ chunker.pc = "loop"
    /\ chunker.start < chunker.text.length
    /\ chunker.iterations < MaxIterations
    /\ LET text == chunker.text
           overlap == chunker.overlap
           start == chunker.start
           end == chunk_end(text, chunker.chunk_size, start)
           next_start == IF end < text.length THEN end - overlap ELSE end
       IN  chunker' =
              [chunker EXCEPT
                 !.chunks = IF NonBlank(text, start, end)
                            THEN Append(@, [start_pos |-> start, end_pos |-> end])
                            ELSE @,
                 !.start = next_start,
                 !.iterations = @ + 1,
                 !.pc = IF next_start < text.length /\ text.length - next_start < overlap
                        THEN "returned" ELSE "loop"]
    /\ ChunkFrame

\* the loop condition fails: total_chunks is written and the chunks returned
ChunkReturn ==
    /\ chunker.pc = "loop"
    /\ ~(chunker.start < chunker.text.length)
    /\ chunker' = [chunker EXCEPT !.pc = "returned"]
    /\ ChunkFrame

ChunkNext ==
    \/ ChunkText
    \/ ChunkIteration
    \/ ChunkReturn

ChunkSpec == ChunkInit /\ [][ChunkNext]_vars

\* C40: every pass of the loop of chunk_text moves start strictly forward, and
\* every chunk it produces covers at least one character that is no space.
ChunkTextMakesProgress ==
    [][ (chunker.pc = "loop" /\ chunker'.iterations = chunker.iterations + 1)
           => /\ chunker'.start > chunker.start
              /\ \A k \in 1..Len(chunker'.chunks) :
                    NonBlank(chunker.text, chunker'.chunks[k].start_pos,
                             chunker'.chunks[k].end_pos) ]_vars

====
